---- MODULE Spec2Model ----
(***************************************************************************)
(* A model of the key-rotation / quota engine (src/tl/key_manager.py) and  *)
(* of the request-admission rate limiter (src/tl/rate_limiter.py).         *)
(*                                                                         *)
(* KeyManager is modelled for one configured provider.  A key is named by  *)
(* its 1-based position in api_keys; current_index keeps the source's      *)
(* 0-based value.  Dates are day numbers, 0 standing for the empty string  *)
(* a fresh KeyUsageRecord holds.  The durable store is reliable: a put_kv  *)
(* that was awaited has written its value.                                 *)
(***************************************************************************)
EXTENDS Integers, Sequences, FiniteSets, TLC

\* ------------------------------------------------------------------ bounds
MaxKeys == 3
MaxLimit == 2
MaxDay == 2
MaxCalls == 7
MaxRestarts == 1
MaxRacingCalls == 4
MaxRacingChecks == 3
MaxPeriod == 2          \* seconds
MaxRequests == 2
MaxTime == 4            \* ticks
TicksPerSecond == 2     \* the clock's resolution: ticks in one second
MaxAttempts == 5        \* the largest max_retries a request is made with

\* ------------------------------------------------------------ KeyManager
VARIABLES
  provider,       \* ProviderKeyManager: api_keys, daily_limit_per_key, current_index, key_records
  km_loaded,      \* KeyManager._loaded
  km_kv,          \* the value stored under KV_KEY: <<>> (nothing) or <<exported records>>
  today,          \* what _get_today_date() returns
  km_lock,        \* KeyManager._lock: <<>> free, else <<holder, waiters in arrival order>>
  km_pc,          \* where each caller is suspended
  km_data,        \* each caller's local: the value get_kv returned / the value handed to put_kv
  km_key,         \* each caller's local: the key its critical section chose
  km_op,          \* the operation each caller is in
  km_ret,         \* the call that returned last: its operation, the key it returned and
                  \* what it found on entry (provider, _loaded, the stored value)
  km_trace,       \* keys returned by the consecutive get_available_key calls made since
                  \* the last other event
  km_fresh,       \* nothing but get_available_key has happened since construction
  handed_today,   \* how often each key was returned to a caller on the day `today`
  deducted_today, \* how often each key's usage_count was incremented on the day `today`
  resets_today,   \* how often each key's counter was reset on the day `today`
  km_calls,       \* operations started so far
  km_restarts     \* instances built after the first

kmVars == <<provider, km_loaded, km_kv, today, km_lock, km_pc, km_data, km_key, km_op,
            km_ret, km_trace, km_fresh, handed_today, deducted_today, resets_today,
            km_calls, km_restarts>>

\* ----------------------------------------------------------- RateLimiter
VARIABLES
  rl_config,            \* PluginConfig: group_limit_mode, group_limit_list, rate_limit_rules,
                        \* default_rate_limit
  rate_limit_buckets,   \* RateLimiter._rate_limit_buckets: group -> timestamps, oldest first
  rl_loaded,            \* RateLimiter._loaded
  rl_kv,                \* the value stored under KV_KEY: <<>> (nothing) or <<buckets>>
  clock,                \* what time.time() returns, in ticks
  rl_lock,              \* RateLimiter._rate_limit_lock: holder first, then the waiters
  rl_pc,                \* where each caller is suspended
  rl_call,              \* each caller's locals: group_id, period, max_requests, now, data,
                        \* and the result it will return
  rl_ret,               \* the call that returned last: its group, its `now`, the rule that
                        \* governed it, its result and why
  admitted,             \* per group, the `now` of the admitted calls that are at most one
                        \* period old, in admission order
  rl_restarts,          \* instances built after the first
  rl_calls              \* limited calls started by the concurrent callers

rlVars == <<rl_config, rate_limit_buckets, rl_loaded, rl_kv, clock, rl_lock, rl_pc,
            rl_call, rl_ret, admitted, rl_restarts, rl_calls>>

\* ------------------------------------------------------------ state, API client
VARIABLES
  max_retries,          \* _make_request's parameter
  current_retry,        \* _make_request's local counter
  last_error,           \* _make_request's local: <<>> or <<the APIError kept>>
  api_pc,               \* where the request is: idle, attempt, backoff, done
  api_result,           \* what _make_request returned or raised
  current_key_index,    \* GeminiAPIClient.current_key_index
  api_keys,             \* len(GeminiAPIClient.api_keys)
  request,              \* what generate_image built: api_type, the key in the
                        \* headers, the caller's max_total_time, the builds made
  elapsed,              \* ghost: seconds since generate_image was called
  attempts,             \* ghost: the attempts made by the request so far
  last_failure,         \* ghost: <<>> or <<what the last attempt raised>>
  delays                \* ghost: the delays slept so far

apiVars == <<max_retries, current_retry, last_error, api_pc, api_result,
             current_key_index, api_keys, request, elapsed, attempts,
             last_failure, delays>>

\* ------------------------------------------------------------ state, adapters
\* The provider adapters and the registry are functions of their arguments:
\* the state is the last call made, its arguments and what it gave.
VARIABLES
  ad_op,                \* the function called last
  ad_in,                \* its arguments
  ad_out                \* what it returned or raised

adVars == <<ad_op, ad_in, ad_out>>

\* ------------------------------------------------------------ state, avatars
\* One call of get_avatar_reference: the avatar downloads it started and
\* gathers under one timeout.
VARIABLES
  av_pc,                \* where the call is: idle, gathering, returned
  av_tasks,             \* the download tasks: pending, image, none, exception,
                        \* cancelled
  av_images,            \* avatar_images, by the place of the task
  av_timed_out          \* ghost: asyncio.wait_for raised TimeoutError

avVars == <<av_pc, av_tasks, av_images, av_timed_out>>

\* ------------------------------------------------------ state, image files
\* The images directory, and one parse of an answer whose images come as
\* b64_json.
VARIABLES
  im_files,             \* the files of the images directory: name, data, mtime
  im_now,               \* the clock, in units of the clean-up age (15 minutes)
  im_stamp,             \* the clock as datetime.now() formats it in a file name
  im_pc,                \* idle, parsed
  im_in,                \* the items of the answer parsed last
  im_out                \* the image paths the parse returned

imVars == <<im_files, im_now, im_stamp, im_pc, im_in, im_out>>

\* ---------------------------------------------------- state, the commands
\* The plugin's image settings, which every command handler shares, and the
\* command handlers that run as concurrent tasks of one event loop.
VARIABLES
  qm_configured,        \* ghost: the resolution and aspect ratio of the config
  qm_resolution,        \* self.resolution
  qm_aspect_ratio,      \* self.aspect_ratio
  qm_commands           \* the handlers: command, position, the old values a
                        \* quick-mode handler keeps, the values its request
                        \* was built with

qmVars == <<qm_configured, qm_resolution, qm_aspect_ratio, qm_commands>>

\* ------------------------------------------------ state, the legacy limiter
\* The limiter the plugin had before RateLimiter: its settings as the config
\* file holds them, and its buckets.
VARIABLES
  lg_settings,          \* limit_settings of the raw config, legacy format
  lg_buckets,           \* self._rate_limit_buckets of the plugin
  lg_ret                \* ghost: what _check_and_consume_limit returned last

lgVars == <<lg_settings, lg_buckets, lg_ret>>

vars == <<kmVars, rlVars, apiVars, adVars, avVars, imVars, qmVars, lgVars>>

\* what each component's steps leave alone
notKM == <<rlVars, apiVars, adVars, avVars, imVars, qmVars, lgVars>>
notRL == <<kmVars, apiVars, adVars, avVars, imVars, qmVars, lgVars>>
notAPI == <<kmVars, rlVars, adVars, avVars, imVars, qmVars, lgVars>>
notAdapters == <<kmVars, rlVars, apiVars, avVars, imVars, qmVars, lgVars>>
notAvatars == <<kmVars, rlVars, apiVars, adVars, imVars, qmVars, lgVars>>
notImages == <<kmVars, rlVars, apiVars, adVars, avVars, qmVars, lgVars>>
notCommands == <<kmVars, rlVars, apiVars, adVars, avVars, imVars, lgVars>>
notLimiters == <<kmVars, apiVars, adVars, avVars, imVars, qmVars>>

Callers == {"a", "b"}

NoKey == 0          \* Python's None as a returned key
NoDate == 0         \* KeyUsageRecord.last_reset_date = ""

Keys(p) == 1 .. Len(p.api_keys)

\* KeyUsageRecord(key=key): usage_count 0, last_reset_date ""
KeyUsageRecord == [usage_count |-> 0, last_reset_date |-> NoDate]

\* ProviderKeyManager(api_type, api_keys, daily_limit_per_key) after __post_init__
ProviderKeyManager(n, limit) ==
  [api_keys |-> [i \in 1 .. n |-> i],
   daily_limit_per_key |-> limit,
   current_index |-> 0,
   key_records |-> [k \in 1 .. n |-> KeyUsageRecord]]

\* KeyManager._export_usage_records
ExportUsageRecords(p) ==
  [current_index |-> p.current_index,
   keys |-> [k \in Keys(p) |->
               [usage_count |-> p.key_records[k].usage_count,
                last_reset_date |-> p.key_records[k].last_reset_date]]]

\* KeyManager._restore_usage_records
RestoreUsageRecords(p, data) ==
  [p EXCEPT !.current_index = data.current_index,
            !.key_records = [k \in Keys(p) |->
                               IF k \in DOMAIN data.keys
                               THEN [usage_count |-> data.keys[k].usage_count,
                                     last_reset_date |-> data.keys[k].last_reset_date]
                               ELSE p.key_records[k]]]

\* KeyManager._load_from_kv, once the awaited get_kv has returned `got`
\* (<<>> for no data): the records are restored when there are any
LoadFromKv(p, got) ==
  IF got # <<>> THEN RestoreUsageRecords(p, got[1]) ELSE p

\* a mutant of _reset_if_new_day: the counter is cleared, the date is not recorded
ResetForgetsDate(record, day) ==
  IF record.last_reset_date # day
  THEN [record EXCEPT !.usage_count = 0]
  ELSE record

\* KeyManager._reset_if_new_day
ResetIfNewDay(record, day) ==
  IF record.last_reset_date # day
  THEN [usage_count |-> 0, last_reset_date |-> day]
  ELSE record

\* a mutant of the quota test: a key at its limit still passes
HasQuotaOffByOne(record, limit) == record.usage_count <= limit

\* get_available_key, line 217: the key has quota left
HasQuota(record, limit) == record.usage_count < limit

\* a mutant of the scan's modular step: the scan never wraps around
ScanIndexNoWrap(start_index, checked_count, n) ==
  IF start_index + checked_count < n THEN start_index + checked_count ELSE n - 1

\* get_available_key, line 210: the index the scan looks at
ScanIndex(start_index, checked_count, n) == (start_index + checked_count) % n

\* get_available_key, lines 209-236: the scan over the pool from start_index.
\* The result is the provider after the scan, the key chosen (NoKey when all
\* are exhausted) and whether _save_to_kv is called.
RECURSIVE ScanKeys(_, _, _, _)
ScanKeys(p, start_index, checked_count, day) ==
  IF checked_count >= Len(p.api_keys)
  THEN [provider |-> p, key |-> NoKey, save |-> FALSE]
  ELSE LET idx == ScanIndex(start_index, checked_count, Len(p.api_keys))
           key == p.api_keys[idx + 1]
           record == ResetIfNewDay(p.key_records[key], day)
           q == [p EXCEPT !.key_records[key] = record]
       IN IF HasQuota(record, p.daily_limit_per_key)
          THEN [provider |-> [q EXCEPT !.current_index = idx,
                                       !.key_records[key].usage_count = @ + 1],
                key |-> key, save |-> TRUE]
          ELSE ScanKeys(q, start_index, checked_count + 1, day)

\* a mutant of the quota-less branch: the key after the current one is returned
CurrentKeyNext(p) == p.api_keys[((p.current_index + 1) % Len(p.api_keys)) + 1]

\* get_available_key, line 202: the key at the current rotation index
CurrentKey(p) == p.api_keys[(p.current_index % Len(p.api_keys)) + 1]

\* get_available_key, lines 194-236: the critical section
LockedGet(p, day) ==
  IF p.daily_limit_per_key <= 0
  THEN [provider |-> p, key |-> CurrentKey(p), save |-> FALSE]
  ELSE ScanKeys(p, p.current_index, 0, day)

\* a mutant of rotate_key's step: the index is advanced by two
AdvanceIndexTwice(p) ==
  [p EXCEPT !.current_index = (p.current_index + 2) % Len(p.api_keys)]

\* rotate_key, lines 257-259: move to the next index
AdvanceIndex(p) ==
  [p EXCEPT !.current_index = (p.current_index + 1) % Len(p.api_keys)]

\* a mutant of _save_to_kv: the rotation index is written as 0
SavedValueNoIndex(p) == <<[ExportUsageRecords(p) EXCEPT !.current_index = 0]>>

\* _save_to_kv, lines 126-127: the value handed to put_kv
SavedValue(p) == <<ExportUsageRecords(p)>>

\* ghost bookkeeping: one more hand-out of `key`
Handed(h, key) == IF key = NoKey THEN h ELSE [h EXCEPT ![key] = @ + 1]

\* ghost bookkeeping: the critical section incremented r.key's usage_count
Deducted(d, r) == IF r.save THEN [d EXCEPT ![r.key] = @ + 1] ELSE d

\* ghost bookkeeping: the keys whose last_reset_date the scan changed
Resets(r, before, after) ==
  [k \in DOMAIN r |->
     IF after.key_records[k].last_reset_date # before.key_records[k].last_reset_date
     THEN r[k] + 1 ELSE r[k]]

\* ghost bookkeeping: what a call found on entry and what it returned
Returned(op, key) ==
  [op |-> op, key |-> key, before |-> provider, was_loaded |-> km_loaded,
   stored |-> km_kv]

Idle == [c \in Callers |-> "idle"]
NoData == [c \in Callers |-> <<>>]
NoKeys == [c \in Callers |-> NoKey]

\* A KeyManager constructed from the configuration; the store is empty
InitKM ==
  /\ \E n \in 1 .. MaxKeys, limit \in 0 .. MaxLimit :
       /\ provider = ProviderKeyManager(n, limit)
       /\ handed_today = [k \in 1 .. n |-> 0]
       /\ deducted_today = [k \in 1 .. n |-> 0]
       /\ resets_today = [k \in 1 .. n |-> 0]
  /\ km_loaded = FALSE
  /\ km_kv = <<>>
  /\ today = 1
  /\ km_lock = <<>>
  /\ km_pc = Idle
  /\ km_data = NoData
  /\ km_key = NoKeys
  /\ km_op = Idle
  /\ km_ret = Returned("none", NoKey)
  /\ km_trace = <<>>
  /\ km_fresh = TRUE
  /\ km_calls = 0
  /\ km_restarts = 0

\* ------------------------------------------- KeyManager, one caller at a time

\* get_available_key run to completion by the only caller: the lazy load,
\* the critical section and the save
GetAvailableKey ==
  /\ km_calls < MaxCalls
  /\ LET loaded == IF km_loaded THEN provider ELSE LoadFromKv(provider, km_kv)
         r == LockedGet(loaded, today)
     IN /\ provider' = r.provider
        /\ km_kv' = IF r.save THEN SavedValue(r.provider) ELSE km_kv
        /\ km_ret' = Returned("get", r.key)
        /\ km_trace' = Append(km_trace, r.key)
        /\ handed_today' = Handed(handed_today, r.key)
        /\ deducted_today' = Deducted(deducted_today, r)
        /\ resets_today' = Resets(resets_today, loaded, r.provider)
  /\ km_loaded' = TRUE
  /\ km_calls' = km_calls + 1
  /\ UNCHANGED <<notKM, today, km_lock, km_pc, km_data, km_key, km_op, km_fresh, km_restarts>>

\* rotate_key run to completion by the only caller
RotateKey ==
  /\ km_calls < MaxCalls
  /\ km_calls' = km_calls + 1
  /\ km_trace' = <<>>
  /\ km_fresh' = FALSE
  /\ IF Len(provider.api_keys) <= 1
     THEN /\ km_ret' = Returned("rotate", provider.api_keys[1])
          /\ handed_today' = Handed(handed_today, provider.api_keys[1])
          /\ UNCHANGED <<provider, km_kv, km_loaded, deducted_today, resets_today>>
     ELSE LET advanced == AdvanceIndex(provider)
              loaded == IF km_loaded THEN advanced ELSE LoadFromKv(advanced, km_kv)
              r == LockedGet(loaded, today)
          IN /\ provider' = r.provider
             /\ km_kv' = IF r.save THEN SavedValue(r.provider) ELSE km_kv
             /\ km_ret' = Returned("rotate", r.key)
             /\ handed_today' = Handed(handed_today, r.key)
             /\ deducted_today' = Deducted(deducted_today, r)
             /\ resets_today' = Resets(resets_today, loaded, r.provider)
             /\ km_loaded' = TRUE
  /\ UNCHANGED <<notKM, today, km_lock, km_pc, km_data, km_key, km_op, km_restarts>>

\* the local date changes
NewDay ==
  /\ today < MaxDay
  /\ today' = today + 1
  /\ handed_today' = [k \in DOMAIN handed_today |-> 0]
  /\ deducted_today' = [k \in DOMAIN deducted_today |-> 0]
  /\ resets_today' = [k \in DOMAIN resets_today |-> 0]
  /\ km_trace' = <<>>
  /\ km_fresh' = FALSE
  /\ km_ret' = Returned("newday", NoKey)
  /\ UNCHANGED <<notKM, provider, km_loaded, km_kv, km_lock, km_pc, km_data, km_key, km_op,
                 km_calls, km_restarts>>

\* the process is restarted while no call is in flight: a new KeyManager is
\* built from the same configuration, the store keeps its value
RestartKM ==
  /\ km_restarts < MaxRestarts
  /\ \A c \in Callers : km_pc[c] = "idle"
  /\ km_restarts' = km_restarts + 1
  /\ provider' = ProviderKeyManager(Len(provider.api_keys), provider.daily_limit_per_key)
  /\ km_loaded' = FALSE
  /\ km_trace' = <<>>
  /\ km_fresh' = FALSE
  /\ km_ret' = [op |-> "restart", key |-> NoKey, before |-> provider',
                was_loaded |-> FALSE, stored |-> km_kv]
  /\ UNCHANGED <<notKM, km_kv, today, km_lock, km_pc, km_data, km_key, km_op, handed_today,
                 deducted_today, resets_today, km_calls>>

NextKM ==
  \/ GetAvailableKey
  \/ RotateKey
  \/ NewDay
  \/ RestartKM


\* ------------------------------------------- KeyManager, concurrent callers
\* Each caller is a coroutine on one event loop: it runs until it awaits
\* get_kv, put_kv or a lock it cannot take at once.  The value get_kv returns
\* is the one the store holds at some moment of the await (KvRead).
\* asyncio.Lock hands the lock to its waiters in arrival order, and a caller
\* that finds waiters queues behind them.

At(c, where) == [km_pc EXCEPT ![c] = where]

\* c returns `key` from the operation op
ReturnKey(c, op, key) ==
  /\ km_pc' = At(c, "idle")
  /\ km_op' = [km_op EXCEPT ![c] = "idle"]
  /\ km_data' = [km_data EXCEPT ![c] = <<>>]
  /\ km_key' = [km_key EXCEPT ![c] = NoKey]
  /\ km_ret' = [op |-> op, key |-> key, before |-> provider',
                was_loaded |-> km_loaded', stored |-> km_kv']

\* c is suspended at `where` inside the operation op
Suspend(c, op, where, data, key) ==
  /\ km_pc' = At(c, where)
  /\ km_op' = [km_op EXCEPT ![c] = op]
  /\ km_data' = [km_data EXCEPT ![c] = data]
  /\ km_key' = [km_key EXCEPT ![c] = key]
  /\ UNCHANGED km_ret

\* get_available_key, lines 194-236, run by c holding the lock (`lock` has c
\* at its head) on the provider p: up to `await self._save_to_kv()`, or to
\* the return when nothing is saved
CriticalGet(c, op, p, lock) ==
  LET r == LockedGet(p, today)
  IN /\ provider' = r.provider
     /\ handed_today' = Handed(handed_today, r.key)
     /\ deducted_today' = Deducted(deducted_today, r)
     /\ resets_today' = Resets(resets_today, p, r.provider)
     /\ IF r.save
        THEN /\ km_lock' = lock
             /\ Suspend(c, op, "put_kv", SavedValue(r.provider), r.key)
        ELSE /\ km_lock' = Tail(lock)
             /\ ReturnKey(c, op, r.key)

\* c reaches `async with self._lock` of get_available_key (line 194) with the
\* provider p in memory: it enters when the lock is free and has no waiter,
\* and queues otherwise
AtLockOfGet(c, op, p, lock) ==
  IF lock = <<>>
  THEN CriticalGet(c, op, p, <<c>>)
  ELSE /\ provider' = p
       /\ km_lock' = Append(lock, c)
       /\ Suspend(c, op, "get_lock", <<>>, NoKey)
       /\ UNCHANGED <<handed_today, deducted_today, resets_today>>

\* c enters get_available_key (lines 189-192) with the provider p in memory:
\* _load_from_kv awaits get_kv unless _loaded is set
EnterGet(c, op, p, lock) ==
  IF km_loaded
  THEN AtLockOfGet(c, op, p, lock)
  ELSE /\ provider' = p
       /\ km_lock' = lock
       /\ Suspend(c, op, "get_kv", <<>>, NoKey)
       /\ UNCHANGED <<handed_today, deducted_today, resets_today>>

\* rotate_key, lines 250-262, run by c holding the lock
CriticalRotate(c, lock) ==
  IF Len(provider.api_keys) <= 1
  THEN /\ km_lock' = Tail(lock)
       /\ handed_today' = Handed(handed_today, provider.api_keys[1])
       /\ UNCHANGED <<provider, deducted_today, resets_today>>
       /\ ReturnKey(c, "rotate", provider.api_keys[1])
  ELSE EnterGet(c, "rotate", AdvanceIndex(provider), Tail(lock))

\* a caller calls get_available_key
CallGet(c) ==
  /\ km_pc[c] = "idle"
  /\ km_calls < MaxRacingCalls
  /\ km_calls' = km_calls + 1
  /\ UNCHANGED <<notKM, km_loaded, km_kv, today, km_trace, km_fresh, km_restarts>>
  /\ EnterGet(c, "get", provider, km_lock)

\* the store answers c's get_kv
KvRead(c) ==
  /\ km_pc[c] = "get_kv"
  /\ km_pc' = At(c, "got_kv")
  /\ km_data' = [km_data EXCEPT ![c] = km_kv]
  /\ UNCHANGED <<notKM, provider, km_loaded, km_kv, today, km_lock, km_key, km_op, km_ret,
                 km_trace, km_fresh, handed_today, deducted_today, resets_today,
                 km_calls, km_restarts>>

\* c resumes in _load_from_kv (lines 110-119) with the value it was given,
\* restores it, sets _loaded and goes on to the lock
KvResume(c) ==
  /\ km_pc[c] = "got_kv"
  /\ km_loaded' = TRUE
  /\ UNCHANGED <<notKM, km_kv, today, km_trace, km_fresh, km_calls, km_restarts>>
  /\ AtLockOfGet(c, km_op[c], LoadFromKv(provider, km_data[c]), km_lock)

\* c, first in the lock's queue, resumes in get_available_key with the lock
LockGranted(c) ==
  /\ km_pc[c] = "get_lock"
  /\ Head(km_lock) = c
  /\ UNCHANGED <<notKM, km_loaded, km_kv, today, km_trace, km_fresh, km_calls, km_restarts>>
  /\ CriticalGet(c, km_op[c], provider, km_lock)

\* c's put_kv has written its value; c resumes, leaves the lock and returns
PutDone(c) ==
  /\ km_pc[c] = "put_kv"
  /\ km_kv' = km_data[c]
  /\ km_lock' = Tail(km_lock)
  /\ UNCHANGED <<notKM, provider, km_loaded, today, km_trace, km_fresh, handed_today,
                 deducted_today, resets_today, km_calls, km_restarts>>
  /\ ReturnKey(c, km_op[c], km_key[c])

\* a caller calls rotate_key
CallRotate(c) ==
  /\ km_pc[c] = "idle"
  /\ km_calls < MaxRacingCalls
  /\ km_calls' = km_calls + 1
  /\ UNCHANGED <<notKM, km_loaded, km_kv, today, km_trace, km_fresh, km_restarts>>
  /\ IF km_lock = <<>>
     THEN CriticalRotate(c, <<c>>)
     ELSE /\ km_lock' = Append(km_lock, c)
          /\ Suspend(c, "rotate", "rotate_lock", <<>>, NoKey)
          /\ UNCHANGED <<provider, handed_today, deducted_today, resets_today>>

\* c, first in the lock's queue, resumes in rotate_key with the lock
RotateGranted(c) ==
  /\ km_pc[c] = "rotate_lock"
  /\ Head(km_lock) = c
  /\ UNCHANGED <<notKM, km_loaded, km_kv, today, km_trace, km_fresh, km_calls, km_restarts>>
  /\ CriticalRotate(c, km_lock)

NextKMC ==
  \/ \E c \in Callers : CallGet(c)
  \/ \E c \in Callers : KvRead(c)
  \/ \E c \in Callers : KvResume(c)
  \/ \E c \in Callers : LockGranted(c)
  \/ \E c \in Callers : PutDone(c)
  \/ \E c \in Callers : CallRotate(c)
  \/ \E c \in Callers : RotateGranted(c)
  \/ NewDay
  \/ RestartKM


\* ------------------------------------------------------------ RateLimiter
\* Time is counted in ticks, TicksPerSecond to the second, so that the
\* fractional part of time.time() is not lost; a period of p seconds is
\* p * TicksPerSecond ticks.  Group 0 stands for an event without a group id.

Groups == {1, 2}
NoGroup == 0
NoMessage == -1     \* the message is None: no retry-after value is reported

Rule(enabled, group_ids, period, max) ==
  [enabled |-> enabled, group_ids |-> group_ids, period_seconds |-> period,
   max_requests |-> max]

\* the configurations a RateLimiter is built from
RLConfigs ==
  LET base == [group_limit_mode |-> "none", group_limit_list |-> {},
               rate_limit_rules |-> <<>>,
               default_rate_limit |-> Rule(FALSE, {}, 1, 1)]
  IN UNION {
       { [base EXCEPT !.rate_limit_rules = <<Rule(TRUE, {}, w, m)>>],
         [base EXCEPT !.default_rate_limit = Rule(TRUE, {}, w, m)],
         [base EXCEPT !.rate_limit_rules =
            <<Rule(FALSE, {}, 1, 1), Rule(TRUE, {1}, w, m)>>],
         [base EXCEPT !.rate_limit_rules = <<Rule(TRUE, {}, w, m)>>,
                      !.group_limit_mode = "blacklist", !.group_limit_list = {2}],
         [base EXCEPT !.rate_limit_rules = <<Rule(TRUE, {}, w, m)>>,
                      !.group_limit_mode = "whitelist", !.group_limit_list = {1}] }
       : w \in 1 .. MaxPeriod, m \in 1 .. MaxRequests }

\* the rule lists of up to two rules: the rule at position i has period i
\* and maximum 1, so that the governing rule shows in what a call enforces
RuleLists ==
  LET first == {Rule(e, g, 1, 1) : e \in BOOLEAN, g \in {{}, {1}, {2}}}
      second == {Rule(e, g, 2, 1) : e \in BOOLEAN, g \in {{}, {1}, {2}}}
  IN {<<>>} \cup {<<r>> : r \in first} \cup {<<r, q>> : r \in first, q \in second}

\* every shape of the limit settings: list mode, list (possibly empty), rule
\* list, default rule (period 2, maximum 2) enabled or not
RuleConfigs ==
  {[group_limit_mode |-> mode, group_limit_list |-> list, rate_limit_rules |-> rules,
    default_rate_limit |-> Rule(d, {}, 2, 2)] :
     mode \in {"none", "whitelist", "blacklist"}, list \in {{}, {1}},
     rules \in RuleLists, d \in BOOLEAN}

\* a mutant of the list check: the whitelist is not consulted
ListDeniesBlacklistOnly(cfg, group_id) ==
  /\ cfg.group_limit_mode = "blacklist"
  /\ cfg.group_limit_list # {} /\ group_id \in cfg.group_limit_list

\* check_and_consume, lines 115-128: the group is refused by the allow/deny list
ListDenies(cfg, group_id) ==
  IF cfg.group_limit_mode = "whitelist"
  THEN cfg.group_limit_list # {} /\ group_id \notin cfg.group_limit_list
  ELSE IF cfg.group_limit_mode = "blacklist"
       THEN cfg.group_limit_list # {} /\ group_id \in cfg.group_limit_list
       ELSE FALSE

\* a mutant of the rule matching: a disabled rule is not skipped
RECURSIVE FindRuleDisabledToo(_, _)
FindRuleDisabledToo(rules, group_id) ==
  IF rules = <<>> THEN <<>>
  ELSE LET rule == Head(rules)
       IN IF rule.group_ids = {} \/ group_id \in rule.group_ids
          THEN <<rule>>
          ELSE FindRuleDisabledToo(Tail(rules), group_id)

\* RateLimiter._find_matching_rule: <<the first enabled rule that names the
\* group or names none>>, or <<>> for None
RECURSIVE FindMatchingRule(_, _)
FindMatchingRule(rules, group_id) ==
  IF rules = <<>> THEN <<>>
  ELSE LET rule == Head(rules)
       IN IF ~rule.enabled THEN FindMatchingRule(Tail(rules), group_id)
          ELSE IF rule.group_ids = {} \/ group_id \in rule.group_ids
               THEN <<rule>>
               ELSE FindMatchingRule(Tail(rules), group_id)

\* check_and_consume, lines 131-155: the parameters that govern the group
Limits(cfg, group_id) ==
  LET matched == FindMatchingRule(cfg.rate_limit_rules, group_id)
  IN IF matched # <<>>
     THEN [enabled |-> matched[1].enabled, period |-> matched[1].period_seconds,
           max_requests |-> matched[1].max_requests]
     ELSE IF cfg.default_rate_limit.enabled
          THEN [enabled |-> TRUE, period |-> cfg.default_rate_limit.period_seconds,
                max_requests |-> cfg.default_rate_limit.max_requests]
          ELSE [enabled |-> FALSE, period |-> 0, max_requests |-> 0]

\* Python's int() of a number of ticks taken as seconds: towards zero
IntSeconds(ticks) ==
  IF ticks >= 0 THEN ticks \div TicksPerSecond ELSE -((-ticks) \div TicksPerSecond)

\* a mutant of the pruning: a timestamp exactly one period old is dropped
InWindowStrict(ts, window_start) == ts > window_start

\* check_and_consume, line 165: the timestamp stays in the bucket
InWindow(ts, window_start) == ts >= window_start

\* check_and_consume, line 165
Prune(bucket, window_start) ==
  LET keep(ts) == InWindow(ts, window_start) IN SelectSeq(bucket, keep)

\* a mutant of the admission test: one request more than the maximum passes
BucketFullLate(bucket, max_requests) == Len(bucket) > max_requests

\* check_and_consume, line 167
BucketFull(bucket, max_requests) == Len(bucket) >= max_requests

\* check_and_consume, lines 168-171: period in seconds, earliest and now in ticks
RetryAfter(earliest, period, now) ==
  LET retry_after == IntSeconds(earliest + period * TicksPerSecond - now)
  IN IF retry_after < 0 THEN 0 ELSE retry_after

\* check_and_consume, lines 161-192: the critical section on the bucket map.
\* The result is the new bucket map and what is returned.
Consume(buckets, group_id, period, max_requests, now) ==
  LET window_start == now - period * TicksPerSecond
      bucket == Prune(buckets[group_id], window_start)
  IN IF BucketFull(bucket, max_requests)
     THEN [buckets |-> [buckets EXCEPT ![group_id] = bucket],
           allowed |-> FALSE,
           retry_after |-> RetryAfter(bucket[1], period, now)]
     ELSE [buckets |-> [buckets EXCEPT ![group_id] = Append(bucket, now)],
           allowed |-> TRUE,
           retry_after |-> NoMessage]

\* a mutant of the lazy load: the stored buckets are not installed
LoadNothing(buckets, got) == buckets

\* RateLimiter._load_from_kv, once the awaited get_kv has returned `got`:
\* a non-empty dict replaces the bucket map
LoadBuckets(buckets, got) ==
  IF got # <<>> /\ (\E g \in DOMAIN got[1] : got[1][g] # <<>>) THEN got[1] ELSE buckets

EmptyBuckets == [g \in Groups |-> <<>>]

\* ghost bookkeeping: what a call was and what it returned
Outcome(group_id, now, reason, limits, allowed, retry_after) ==
  [group |-> group_id, now |-> now, reason |-> reason, period |-> limits.period,
   max_requests |-> limits.max_requests, allowed |-> allowed,
   retry_after |-> retry_after]

NoLimits == [enabled |-> FALSE, period |-> 0, max_requests |-> 0]
\* a mutant of the private-chat exit: the event is refused
RefusePrivate(now) == Outcome(NoGroup, now, "private", NoLimits, FALSE, NoMessage)

\* check_and_consume, lines 110-112: an event without a group id passes
PassPrivate(now) == Outcome(NoGroup, now, "private", NoLimits, TRUE, NoMessage)

NoCall == [group |-> NoGroup, period |-> 0, max_requests |-> 0, now |-> 0,
           data |-> <<>>, allowed |-> FALSE, retry_after |-> NoMessage]

\* A RateLimiter constructed from a configuration; the store is empty
InitRL ==
  /\ rl_config \in RLConfigs
  /\ rate_limit_buckets = EmptyBuckets
  /\ rl_loaded = FALSE
  /\ rl_kv = <<>>
  /\ clock = 0
  /\ rl_lock = <<>>
  /\ rl_pc = Idle
  /\ rl_call = [c \in Callers |-> NoCall]
  /\ rl_ret = Outcome(NoGroup, 0, "none", NoLimits, TRUE, NoMessage)
  /\ admitted = EmptyBuckets
  /\ rl_restarts = 0
  /\ rl_calls = 0

\* the component that takes no step in a specification
ParkedRL ==
  /\ rl_config = [group_limit_mode |-> "none", group_limit_list |-> {},
                  rate_limit_rules |-> <<>>,
                  default_rate_limit |-> Rule(FALSE, {}, 1, 1)]
  /\ rate_limit_buckets = EmptyBuckets
  /\ rl_loaded = FALSE
  /\ rl_kv = <<>>
  /\ clock = 0
  /\ rl_lock = <<>>
  /\ rl_pc = Idle
  /\ rl_call = [c \in Callers |-> NoCall]
  /\ rl_ret = Outcome(NoGroup, 0, "none", NoLimits, TRUE, NoMessage)
  /\ admitted = EmptyBuckets
  /\ rl_restarts = 0
  /\ rl_calls = 0

ParkedKM ==
  /\ provider = ProviderKeyManager(1, 0)
  /\ handed_today = <<0>>
  /\ deducted_today = <<0>>
  /\ resets_today = <<0>>
  /\ km_loaded = FALSE
  /\ km_kv = <<>>
  /\ today = 1
  /\ km_lock = <<>>
  /\ km_pc = Idle
  /\ km_data = NoData
  /\ km_key = NoKeys
  /\ km_op = Idle
  /\ km_ret = Returned("none", NoKey)
  /\ km_trace = <<>>
  /\ km_fresh = TRUE
  /\ km_calls = 0
  /\ km_restarts = 0

\* ------------------------------------------ RateLimiter, one caller at a time

\* check_and_consume run to completion by the only caller, for an event of
\* the group group_id (NoGroup: a private chat): what it does to the limiter
CheckAndConsumeRL(group_id) ==
  /\ LET limits == Limits(rl_config, group_id)
     IN IF group_id = NoGroup
        THEN /\ rl_ret' = PassPrivate(clock)
             /\ UNCHANGED <<rate_limit_buckets, rl_loaded, rl_kv, admitted>>
        ELSE IF ListDenies(rl_config, group_id)
        THEN /\ rl_ret' = Outcome(group_id, clock, "list", NoLimits, FALSE, NoMessage)
             /\ UNCHANGED <<rate_limit_buckets, rl_loaded, rl_kv, admitted>>
        ELSE IF ~limits.enabled
        THEN /\ rl_ret' = Outcome(group_id, clock, "unlimited", NoLimits, TRUE, NoMessage)
             /\ UNCHANGED <<rate_limit_buckets, rl_loaded, rl_kv, admitted>>
        ELSE LET loaded == IF rl_loaded THEN rate_limit_buckets
                           ELSE LoadBuckets(rate_limit_buckets, rl_kv)
                 r == Consume(loaded, group_id, limits.period, limits.max_requests, clock)
             IN /\ rate_limit_buckets' = r.buckets
                /\ rl_loaded' = TRUE
                /\ rl_kv' = <<r.buckets>>
                /\ admitted' = IF r.allowed
                               THEN [admitted EXCEPT ![group_id] = Append(@, clock)]
                               ELSE admitted
                /\ rl_ret' = Outcome(group_id, clock, IF r.allowed THEN "ok" ELSE "rate",
                                     limits, r.allowed, r.retry_after)
  /\ UNCHANGED <<rl_config, clock, rl_lock, rl_pc, rl_call, rl_restarts, rl_calls>>

\* check_and_consume called on a plugin that has the RateLimiter only
CheckAndConsume(group_id) == CheckAndConsumeRL(group_id) /\ UNCHANGED notRL

\* ghost bookkeeping: the admissions of group g no older than its period at t
Recent(log, g, t) ==
  LET window_start == t - Limits(rl_config, g).period * TicksPerSecond
      keep(ts) == ts >= window_start
  IN SelectSeq(log[g], keep)

\* time passes; the ghost log forgets the admissions older than one period
Tick ==
  /\ clock < MaxTime
  /\ clock' = clock + 1
  /\ admitted' = [g \in Groups |-> Recent(admitted, g, clock + 1)]
  /\ UNCHANGED <<notRL, rl_config, rate_limit_buckets, rl_loaded, rl_kv, rl_lock, rl_pc,
                 rl_call, rl_ret, rl_restarts, rl_calls>>

\* the process is restarted while no call is in flight: a new RateLimiter is
\* built from the same configuration, the store keeps its value
RestartRL ==
  /\ rl_restarts < MaxRestarts
  /\ \A c \in Callers : rl_pc[c] = "idle"
  /\ rl_restarts' = rl_restarts + 1
  /\ UNCHANGED rl_calls
  /\ rate_limit_buckets' = EmptyBuckets
  /\ rl_loaded' = FALSE
  /\ rl_ret' = Outcome(NoGroup, 0, "restart", NoLimits, TRUE, NoMessage)
  /\ UNCHANGED <<notRL, rl_config, rl_kv, clock, rl_lock, rl_pc, rl_call, admitted>>

NextRL ==
  \/ \E group_id \in Groups \cup {NoGroup} : CheckAndConsume(group_id)
  \/ Tick
  \/ RestartRL

\* ------------------------------------------- RateLimiter, concurrent callers
\* As for KeyManager: a caller runs until it awaits get_kv, put_kv or a lock
\* it cannot take at once.  `now` is read before the lock is awaited.

RlAt(c, where) == [rl_pc EXCEPT ![c] = where]

\* check_and_consume, lines 163-192, run by c holding the lock on the bucket
\* map `buckets`: up to `await self._save_to_kv()`
CriticalConsume(c, call, buckets, lock) ==
  LET r == Consume(buckets, call.group, call.period, call.max_requests, call.now)
  IN /\ rate_limit_buckets' = r.buckets
     /\ rl_lock' = lock
     /\ rl_pc' = RlAt(c, "put_kv")
     /\ rl_call' = [rl_call EXCEPT ![c] = [call EXCEPT !.data = <<r.buckets>>,
                                                       !.allowed = r.allowed,
                                                       !.retry_after = r.retry_after]]
     /\ admitted' = IF r.allowed
                    THEN [admitted EXCEPT ![call.group] = Append(@, call.now)]
                    ELSE admitted

\* c reads the clock (line 160) and reaches `async with self._rate_limit_lock`
\* (line 163) with the bucket map `buckets` in memory
AtLockOfCheck(c, call, buckets) ==
  LET timed == [call EXCEPT !.now = clock, !.data = <<>>]
  IN IF rl_lock = <<>>
     THEN CriticalConsume(c, timed, buckets, <<c>>)
     ELSE /\ rate_limit_buckets' = buckets
          /\ rl_lock' = Append(rl_lock, c)
          /\ rl_pc' = RlAt(c, "lock")
          /\ rl_call' = [rl_call EXCEPT ![c] = timed]
          /\ UNCHANGED admitted

\* a caller calls check_and_consume for an event of the group group_id
CallCheck(c, group_id) ==
  /\ rl_pc[c] = "idle"
  /\ UNCHANGED <<notRL, rl_config, rl_kv, clock, rl_restarts>>
  /\ LET limits == Limits(rl_config, group_id)
         call == [NoCall EXCEPT !.group = group_id, !.period = limits.period,
                                !.max_requests = limits.max_requests]
     IN IF group_id = NoGroup
        THEN /\ rl_ret' = PassPrivate(clock)
             /\ UNCHANGED <<rate_limit_buckets, rl_loaded, rl_lock, rl_pc, rl_call, admitted,
                          rl_calls>>
        ELSE IF ListDenies(rl_config, group_id)
        THEN /\ rl_ret' = Outcome(group_id, clock, "list", NoLimits, FALSE, NoMessage)
             /\ UNCHANGED <<rate_limit_buckets, rl_loaded, rl_lock, rl_pc, rl_call, admitted,
                          rl_calls>>
        ELSE IF ~limits.enabled
        THEN /\ rl_ret' = Outcome(group_id, clock, "unlimited", NoLimits, TRUE, NoMessage)
             /\ UNCHANGED <<rate_limit_buckets, rl_loaded, rl_lock, rl_pc, rl_call, admitted,
                          rl_calls>>
        ELSE /\ rl_calls < MaxRacingChecks
             /\ rl_calls' = rl_calls + 1
             /\ UNCHANGED <<rl_ret, rl_loaded>>
             /\ IF rl_loaded
                THEN AtLockOfCheck(c, call, rate_limit_buckets)
                ELSE /\ rl_pc' = RlAt(c, "get_kv")
                     /\ rl_call' = [rl_call EXCEPT ![c] = call]
                     /\ UNCHANGED <<rate_limit_buckets, rl_lock, admitted>>

\* the store answers c's get_kv
RlKvRead(c) ==
  /\ rl_pc[c] = "get_kv"
  /\ rl_pc' = RlAt(c, "got_kv")
  /\ rl_call' = [rl_call EXCEPT ![c].data = rl_kv]
  /\ UNCHANGED <<notRL, rl_config, rate_limit_buckets, rl_loaded, rl_kv, clock, rl_lock,
                 rl_ret, admitted, rl_restarts, rl_calls>>

\* c resumes in _load_from_kv (lines 45-55) with the value it was given,
\* installs it, sets _loaded and goes on to the clock and the lock
RlKvResume(c) ==
  /\ rl_pc[c] = "got_kv"
  /\ rl_loaded' = TRUE
  /\ UNCHANGED <<notRL, rl_config, rl_kv, clock, rl_ret, rl_restarts, rl_calls>>
  /\ AtLockOfCheck(c, rl_call[c], LoadBuckets(rate_limit_buckets, rl_call[c].data))

\* c, first in the lock's queue, resumes in check_and_consume with the lock
RlLockGranted(c) ==
  /\ rl_pc[c] = "lock"
  /\ Head(rl_lock) = c
  /\ UNCHANGED <<notRL, rl_config, rl_loaded, rl_kv, clock, rl_ret, rl_restarts, rl_calls>>
  /\ CriticalConsume(c, rl_call[c], rate_limit_buckets, rl_lock)

\* c's put_kv has written its value; c resumes, leaves the lock and returns
RlPutDone(c) ==
  /\ rl_pc[c] = "put_kv"
  /\ rl_kv' = rl_call[c].data
  /\ rl_lock' = Tail(rl_lock)
  /\ rl_pc' = RlAt(c, "idle")
  /\ rl_call' = [rl_call EXCEPT ![c] = NoCall]
  /\ rl_ret' = [group |-> rl_call[c].group, now |-> rl_call[c].now,
                reason |-> IF rl_call[c].allowed THEN "ok" ELSE "rate",
                period |-> rl_call[c].period, max_requests |-> rl_call[c].max_requests,
                allowed |-> rl_call[c].allowed, retry_after |-> rl_call[c].retry_after]
  /\ UNCHANGED <<notRL, rl_config, rate_limit_buckets, rl_loaded, clock, admitted,
                 rl_restarts, rl_calls>>

NextRLC ==
  \/ \E c \in Callers, group_id \in Groups \cup {NoGroup} : CallCheck(c, group_id)
  \/ \E c \in Callers : RlKvRead(c)
  \/ \E c \in Callers : RlKvResume(c)
  \/ \E c \in Callers : RlLockGranted(c)
  \/ \E c \in Callers : RlPutDone(c)
  \/ Tick
  \/ RestartRL

\* ------------------------------------------------------------ API client
\* GeminiAPIClient._make_request.  An attempt ends with a result, with an
\* exception, or is cancelled by the caller.  An exception is given by its
\* class, the attributes the classification reads and the words of its message
\* that the classification looks for.

NoStatus == 0      \* the exception has no such attribute

HttpStatuses == {400, 401, 402, 403, 408, 422, 429, 500, 502, 503, 504}

Words == {"timeout", "connection"}

Exc(cls, status_code, status, error_type, words) ==
  [cls |-> cls, status_code |-> status_code, status |-> status,
   error_type |-> error_type, words |-> words, cites |-> 0]

\* APIError(message, status_code, error_type): it has no attribute `status`
APIError(words, status_code, error_type) ==
  Exc("APIError", status_code, NoStatus, error_type, words)

\* _perform_request, lines 399-416, for a response that is not 200: the
\* message is the vendor's, or "HTTP <status>"
PerformRequest(status, words) ==
  IF status \in {429, 402, 403}
  THEN APIError(words, status, "quota")
  ELSE APIError(words, status, "none")

\* what wait_for(_perform_request(...)) can raise in an attempt
Failures ==
  {PerformRequest(st, w) : st \in HttpStatuses, w \in SUBSET Words}
    \cup {Exc("TimeoutError", NoStatus, NoStatus, "none", {})}
    \cup {Exc("ClientError", NoStatus, NoStatus, "none", w) : w \in SUBSET Words}
    \cup {Exc("ClientError", NoStatus, st, "none", {}) : st \in {401, 503}}
    \cup {Exc("Exception", NoStatus, NoStatus, "none", w) : w \in SUBSET Words}
    \cup {Exc("Exception", NoStatus, st, "none", {}) : st \in HttpStatuses}

\* a mutant of the classification: the message is looked at first
ClassifyByMessageFirst(exception) ==
  IF "timeout" \in exception.words THEN "timeout"
  ELSE IF "connection" \in exception.words THEN "network"
  ELSE "unknown"

\* _classify_error, lines 350-361
ClassifyError(exception) ==
  IF exception.cls = "TimeoutError" THEN "timeout"
  ELSE IF "timeout" \in exception.words THEN "timeout"
  ELSE IF "connection" \in exception.words THEN "network"
  ELSE IF exception.cls = "ClientError" THEN "network"
  ELSE "unknown"

\* a mutant of the retry decision: every error is retried
RetryAlways(error_type, exception) == TRUE

\* _is_retryable_error, lines 363-379
IsRetryableError(error_type, exception) ==
  IF error_type \in {"timeout", "network"} THEN TRUE
  ELSE IF exception.status # NoStatus /\ exception.status \in {408, 500, 502, 503, 504}
  THEN TRUE
  ELSE IF exception.status # NoStatus /\ exception.status \in {401, 402, 403, 422, 429}
  THEN FALSE
  ELSE TRUE

Min(a, b) == IF a < b THEN a ELSE b

BackoffCap == 10   \* seconds, line 333

\* a mutant of the backoff: the delay is not capped
DelayUncapped(retry) == 2 ^ (retry + 1)

\* _make_request, line 333: the delay slept after the retry-th failure
Delay(retry) == Min(2 ^ (retry + 1), BackoffCap)

\* what _make_request returns or raises; (None, None, None) is a result
\* with neither an image nor a text
Raised(exception) == [kind |-> "raised", value |-> exception]
ReturnedTuple(image, text) ==
  [kind |-> "returned",
   value |-> IF image /\ text THEN "both" ELSE IF image THEN "image"
             ELSE IF text THEN "text" ELSE "none"]
ReturnedNothing == ReturnedTuple(FALSE, FALSE)
Pending == [kind |-> "pending", value |-> "none"]
CancelledError == Exc("CancelledError", NoStatus, NoStatus, "none", {})

\* the body of a 200 answer of the Google API, by what _parse_gresponse
\* reads: whether candidates are there, the first candidate's finishReason,
\* whether it has content.parts, its inlineData part (none, one with empty
\* data, one that save_base64_image does not save, one that is saved) and
\* its text parts (none, only empty ones, some text); thought parts count
\* for nothing
GoogleBodies ==
  [candidates : BOOLEAN, finishReason : {"STOP", "SAFETY", "RECITATION"},
   parts : BOOLEAN, image : {"none", "empty", "unsaved", "saved"},
   text : {"none", "empty", "some"}]

\* the body of a 200 answer of an OpenAI-compatible API, by what
\* _parse_openrouter_response reads: the shape (choices, a non-empty data
\* list, neither), whether the message has content, and the image named by
\* the body (none, one that is fetched or saved, one that is not)
OpenAIBodies ==
  [shape : {"choices", "data", "other"}, content : BOOLEAN,
   image : {"none", "fetched", "failed"}]

\* what parsing gives: a result, or an exception raised
Parsed(image, text) == [kind |-> "result", image |-> image, text |-> text]
ParseRaises(exception) == [kind |-> "raise", exception |-> exception]

\* _parse_gresponse, lines 418-530
ParseGResponse(body) ==
  IF ~body.candidates THEN Parsed(FALSE, FALSE)
  ELSE IF body.finishReason \in {"SAFETY", "RECITATION"} THEN Parsed(FALSE, FALSE)
  ELSE IF ~body.parts THEN Parsed(FALSE, FALSE)
  ELSE IF body.image = "saved" \/ body.text = "some"
  THEN Parsed(body.image = "saved", body.text = "some")
  ELSE IF body.text # "none" /\ body.image = "none"
  THEN ParseRaises(APIError({}, NoStatus, "no_image"))
  ELSE ParseRaises(APIError({}, NoStatus, "invalid_response"))

\* _parse_openrouter_response, lines 532-584
ParseOpenrouterResponse(body) ==
  IF body.shape = "choices"
  THEN IF body.image = "fetched" THEN Parsed(TRUE, body.content)
       ELSE IF body.image = "failed" THEN Parsed(FALSE, body.content)
       ELSE Parsed(FALSE, body.content)
  ELSE IF body.shape = "data"
  THEN Parsed(body.image = "fetched", FALSE)
  ELSE Parsed(FALSE, FALSE)

ApiTypes == {"google", "openai"}

Bodies(api_type) == IF api_type = "google" THEN GoogleBodies ELSE OpenAIBodies

\* _perform_request, lines 399-404, for a 200 answer
ParseResponse(api_type, body) ==
  IF api_type = "google" THEN ParseGResponse(body) ELSE ParseOpenrouterResponse(body)

\* the exceptions that parsing a 200 answer raises
ParseFailures(api_type) ==
  {ParseResponse(api_type, body).exception :
     body \in {b \in Bodies(api_type) : ParseResponse(api_type, b).kind = "raise"}}

TotalTimeout == 120   \* seconds an attempt may take, generate_image's default

\* the total-time budgets the callers pass as max_total_time: the tool-call
\* timeout (main.py line 533) or twice total_timeout (main.py line 678)
Budgets == {60, 240}

\* generate_image, lines 262-268: the key is taken once, the url, headers
\* and payload are built once
BuiltRequest(api_type, key, max_total_time) ==
  [api_type |-> api_type, api_key |-> key, max_total_time |-> max_total_time,
   builds |-> 1, is_retry |-> FALSE]

NoRequest == BuiltRequest("google", 0, 0)

ParkedAPI ==
  /\ max_retries = 0
  /\ current_retry = 0
  /\ last_error = <<>>
  /\ api_pc = "idle"
  /\ api_result = Pending
  /\ current_key_index = 0
  /\ api_keys = 1
  /\ request = NoRequest
  /\ elapsed = 0
  /\ attempts = 0
  /\ last_failure = <<>>
  /\ delays = <<>>

\* a client with one or two keys and some key selected, no request made yet
InitAPI ==
  /\ max_retries = 0
  /\ current_retry = 0
  /\ last_error = <<>>
  /\ api_pc = "idle"
  /\ api_result = Pending
  /\ api_keys \in 1 .. 2
  /\ current_key_index \in 0 .. (api_keys - 1)
  /\ request = NoRequest
  /\ elapsed = 0
  /\ attempts = 0
  /\ last_failure = <<>>
  /\ delays = <<>>

\* _make_request is called, lines 303-310: with max_retries = 0 the loop is
\* not entered and (None, None, None) is returned; otherwise the first
\* attempt is under way
MakeRequest(n) ==
  /\ api_pc \in {"idle", "done"}
  /\ max_retries' = n
  /\ current_retry' = 0
  /\ last_error' = <<>>
  /\ attempts' = IF n = 0 THEN 0 ELSE 1
  /\ last_failure' = <<>>
  /\ delays' = <<>>
  /\ elapsed' = 0
  /\ IF n = 0
     THEN api_pc' = "done" /\ api_result' = ReturnedNothing
     ELSE api_pc' = "attempt" /\ api_result' = Pending
  /\ UNCHANGED <<notAPI, current_key_index, api_keys>>

\* generate_image, lines 247-289, with config.api_key unset: the key at
\* current_key_index is taken (get_next_api_key does not advance the index),
\* the request is built and _make_request is called; per_retry_timeout and
\* max_total_time are not passed on
GenerateImage(api_type, n, max_total_time) ==
  /\ request' = BuiltRequest(api_type, current_key_index % api_keys, max_total_time)
  /\ MakeRequest(n)

\* the attempt's HTTP call answers 200 with `body` and the parsed result is
\* returned, lines 311-314 and 399-404
AttemptSucceeds(body) ==
  /\ api_pc = "attempt"
  /\ body \in Bodies(request.api_type)
  /\ ParseResponse(request.api_type, body).kind = "result"
  /\ api_pc' = "done"
  /\ api_result' = ReturnedTuple(ParseResponse(request.api_type, body).image,
                                 ParseResponse(request.api_type, body).text)
  /\ last_failure' = <<>>
  /\ UNCHANGED <<notAPI, max_retries, current_retry, last_error, current_key_index,
                 api_keys, request, elapsed, attempts, delays>>

\* the attempt raises `exception`, lines 321-342; an attempt that ends by
\* its own timeout has taken total_timeout seconds, the other failures are
\* taken as immediate
AttemptFails(exception) ==
  /\ api_pc = "attempt"
  /\ last_failure' = <<exception>>
  /\ elapsed' = elapsed + (IF exception.cls = "TimeoutError" THEN TotalTimeout ELSE 0)
  /\ LET error_type == ClassifyError(exception)
     IN IF IsRetryableError(error_type, exception)
        THEN /\ last_error' = <<APIError(exception.words, NoStatus, error_type)>>
             /\ current_retry' = current_retry + 1
             /\ IF current_retry + 1 < max_retries
                THEN /\ delays' = Append(delays, Delay(current_retry + 1))
                     /\ api_pc' = "backoff"
                     /\ api_result' = Pending
                ELSE \* the loop ends; lines 344-346 raise last_error
                     /\ delays' = delays
                     /\ api_pc' = "done"
                     /\ api_result' = Raised(APIError(exception.words, NoStatus, error_type))
        ELSE /\ api_result' = Raised(APIError(exception.words, NoStatus, error_type))
             /\ api_pc' = "done"
             /\ UNCHANGED <<last_error, current_retry, delays>>
  /\ UNCHANGED <<notAPI, max_retries, current_key_index, api_keys, request, attempts>>

\* the caller cancels the task while the attempt is awaited, lines 316-320
AttemptCancelled ==
  /\ api_pc = "attempt"
  /\ api_pc' = "done"
  /\ last_failure' = <<CancelledError>>
  /\ api_result' = Raised(APIError({}, NoStatus, "cancelled"))
  /\ UNCHANGED <<notAPI, max_retries, current_retry, last_error, current_key_index,
                 api_keys, request, elapsed, attempts, delays>>

\* asyncio.sleep(delay) returns, lines 334-336: the loop continues with the
\* url, headers and payload it was called with, and the next attempt is
\* under way
BackoffEnds ==
  /\ api_pc = "backoff"
  /\ api_pc' = "attempt"
  /\ attempts' = attempts + 1
  /\ elapsed' = elapsed + delays[Len(delays)]
  /\ UNCHANGED <<notAPI, max_retries, current_retry, last_error, api_result,
                 current_key_index, api_keys, request, last_failure, delays>>

\* the caller cancels the task during asyncio.sleep(delay), line 335: the
\* sleep is inside the `except Exception` handler, where no handler of the
\* same try statement applies, so the CancelledError leaves _make_request
BackoffCancelled ==
  /\ api_pc = "backoff"
  /\ api_pc' = "done"
  /\ api_result' = Raised(CancelledError)
  /\ UNCHANGED <<notAPI, max_retries, current_retry, last_error, current_key_index,
                 api_keys, request, elapsed, attempts, last_failure, delays>>

NextAPI ==
  \/ \E api_type \in ApiTypes, n \in 0 .. MaxAttempts, max_total_time \in Budgets :
       GenerateImage(api_type, n, max_total_time)
  \/ \E body \in GoogleBodies \cup OpenAIBodies : AttemptSucceeds(body)
  \/ \E exception \in Failures \cup ParseFailures(request.api_type) :
       AttemptFails(exception)
  \/ AttemptCancelled
  \/ BackoffEnds
  \/ BackoffCancelled

\* ------------------------------------------------------------ strings
\* A string is the sequence of its characters; None is <<>> and a value v
\* that is there is <<v>> where a parameter may be None.

None == <<>>
Some(v) == <<v>>

LowerCase == <<"a", "b", "c", "d", "e", "f", "g", "h", "i", "j", "k", "l", "m",
               "n", "o", "p", "q", "r", "s", "t", "u", "v", "w", "x", "y", "z">>
UpperCase == <<"A", "B", "C", "D", "E", "F", "G", "H", "I", "J", "K", "L", "M",
               "N", "O", "P", "Q", "R", "S", "T", "U", "V", "W", "X", "Y", "Z">>
Digits == {"0", "1", "2", "3", "4", "5", "6", "7", "8", "9"}

\* str.lower() and str.upper(), one character
LowerChar(c) ==
  IF \E i \in DOMAIN UpperCase : UpperCase[i] = c
  THEN LowerCase[CHOOSE i \in DOMAIN UpperCase : UpperCase[i] = c]
  ELSE c
UpperChar(c) ==
  IF \E i \in DOMAIN LowerCase : LowerCase[i] = c
  THEN UpperCase[CHOOSE i \in DOMAIN LowerCase : LowerCase[i] = c]
  ELSE c

Lower(str) == [i \in DOMAIN str |-> LowerChar(str[i])]
Upper(str) == [i \in DOMAIN str |-> UpperChar(str[i])]

\* str.strip()
RECURSIVE LStrip(_)
LStrip(str) ==
  IF str # <<>> /\ Head(str) = " " THEN LStrip(Tail(str)) ELSE str
RECURSIVE RStrip(_)
RStrip(str) ==
  IF str # <<>> /\ str[Len(str)] = " " THEN RStrip(SubSeq(str, 1, Len(str) - 1))
  ELSE str
Strip(str) == RStrip(LStrip(str))

\* str.replace(old, new) for single characters, and for new = ""
Replace(str, old, new) == [i \in DOMAIN str |-> IF str[i] = old THEN new ELSE str[i]]
Remove(str, old) == SelectSeq(str, LAMBDA c : c # old)

\* str.startswith(prefix), and `sub in str`
StartsWith(str, prefix) ==
  Len(prefix) <= Len(str) /\ SubSeq(str, 1, Len(prefix)) = prefix
Contains(str, sub) ==
  \E i \in 0 .. (Len(str) - Len(sub)) : SubSeq(str, i + 1, i + Len(sub)) = sub

\* --------------------------------------------------------------- registry
\* src/tl/api/registry.py

DOUBAO_API_TYPES ==
  {<<"d", "o", "u", "b", "a", "o">>,
   <<"v", "o", "l", "c", "e", "n", "g", "i", "n", "e">>,
   <<"a", "r", "k">>,
   <<"s", "e", "e", "d", "r", "e", "a", "m">>}

\* a mutant of the normalisation: hyphens are kept
NormalizeKeepsHyphens(api_type) ==
  Lower(Strip(IF api_type = None THEN <<>> ELSE api_type[1]))

\* normalize_api_type, lines 29-40
NormalizeApiType(api_type) ==
  Replace(Lower(Strip(IF api_type = None THEN <<>> ELSE api_type[1])), "-", "_")

\* get_api_provider, lines 55-83: the adapter instance, by its name
GetApiProviderOf(api_type) ==
  LET normalized == NormalizeApiType(api_type)
  IN IF normalized \in DOUBAO_API_TYPES THEN "doubao"
     ELSE IF normalized = <<"z", "a", "i">> \/ StartsWith(normalized, <<"z", "a", "i", "_">>)
     THEN "zai"
     ELSE IF normalized \in {<<"g", "r", "o", "k", "2", "a", "p", "i">>,
                             <<"g", "r", "o", "k", "2", "_", "a", "p", "i">>}
             \/ StartsWith(normalized, <<"g", "r", "o", "k", "2", "a", "p", "i", "_">>)
     THEN "grok2api"
     ELSE IF normalized \in {<<"g", "o", "o", "g", "l", "e">>,
                             <<"g", "e", "m", "i", "n", "i">>,
                             <<"g", "o", "o", "g", "l", "e", "g", "e", "n", "a", "i">>,
                             <<"g", "o", "o", "g", "l", "e", "_", "g", "e", "n", "a", "i">>}
     THEN "google"
     ELSE "openai"

\* the names and aliases the registry knows, and some it does not
KnownNames ==
  DOUBAO_API_TYPES \cup
  {<<"z", "a", "i">>, <<"z", "a", "i", "_", "x">>,
   <<"g", "r", "o", "k", "2", "a", "p", "i">>,
   <<"g", "r", "o", "k", "2", "_", "a", "p", "i">>,
   <<"g", "r", "o", "k", "2", "a", "p", "i", "_", "x">>,
   <<"g", "o", "o", "g", "l", "e">>, <<"g", "e", "m", "i", "n", "i">>,
   <<"g", "o", "o", "g", "l", "e", "g", "e", "n", "a", "i">>,
   <<"g", "o", "o", "g", "l", "e", "_", "g", "e", "n", "a", "i">>}
OtherNames ==
  {<<"o", "p", "e", "n", "a", "i">>, <<"g", "l", "m">>,
   <<"w", "h", "a", "t", "a", "i">>, <<"a", "r", "k", "s">>,
   <<"d", "o", "u", "_", "b", "a", "o">>, <<"z", "a", "i", "x">>}

\* the ways an identifier is written: as it is, in upper case, with spaces
\* around it, with hyphens for underscores
Spellings(name) ==
  {name, Upper(name), <<" ">> \o name \o <<" ", " ">>, Replace(name, "_", "-"),
   <<" ">> \o Upper(Replace(name, "_", "-"))}

MaxIdLen == 3

\* every string of up to MaxIdLen characters of this alphabet
ShortIds ==
  UNION {[1 .. n -> {"a", "r", "k", "A", "K", " ", "-", "_"}] : n \in 0 .. MaxIdLen}

\* the identifiers get_api_provider is called with; None is one of them
Identifiers ==
  {None} \cup {Some(id) : id \in ShortIds \cup UNION {Spellings(n) : n \in KnownNames \cup OtherNames}}

\* ------------------------------------------------------------- adapters

NoArgs == [none |-> TRUE]

ParkedAdapters ==
  /\ ad_op = "none"
  /\ ad_in = NoArgs
  /\ ad_out = NoArgs

\* what a function of an adapter gives
Gives(value) == [kind |-> "returned", value |-> value]
Throws(error) == [kind |-> "raised", value |-> error]

\* --- resolutions and models, as strings

Str1K == <<"1", "K">>
Str2K == <<"2", "K">>
Str4K == <<"4", "K">>
Unset == <<>>     \* the payload has no such field

\* resolution settings: None, empty, blank, the three tiers in several
\* spellings, pixel counts, sizes, and values no model knows
Resolutions ==
  {None} \cup
  {Some(r) : r \in
     {<<>>, <<" ">>, Str1K, Str2K, Str4K, <<"1", "k">>, <<" ", "2", "k", " ">>,
      <<"4", " ", "K">>, <<"1", "0", "2", "4">>, <<"2", "0", "4", "8">>,
      <<"4", "0", "9", "6">>, <<"8", "K">>, <<"5", "1", "2">>, <<"a", "u", "t", "o">>,
      <<"1", "0", "2", "4", "x", "1", "0", "2", "4">>,
      <<"2", "0", "4", "8", "X", "2", "0", "4", "8">>,
      <<"5", "1", "2", "x", "5", "1", "2">>, <<"6", "4", "x", "6", "4">>}}

\* model names: seedream 4.5 and 4.0 in the spellings in use, an older
\* model, an endpoint id, and none
Models ==
  {<<>>,
   <<"s", "e", "e", "d", "r", "e", "a", "m", "-", "4", "-", "5">>,
   <<"S", "e", "e", "d", "r", "e", "a", "m", "_", "4", ".", "5">>,
   <<"s", "e", "e", "d", "r", "e", "a", "m", "-", "4", "-", "0">>,
   <<"s", "e", "e", "d", "r", "e", "a", "m", "-", "3">>,
   <<"e", "p", "-", "1">>}

DefaultDoubaoModel == <<"d", "o", "u", "b", "a", "o", "-", "s", "e", "e", "d", "r", "e", "a", "m", "-", "4", ".", "5">>

\* re.match(r"^\d{3,5}x\d{3,5}$", str)
IsWxH(str) ==
  \E i \in DOMAIN str :
    /\ str[i] = "x"
    /\ (i - 1) \in 3 .. 5 /\ (Len(str) - i) \in 3 .. 5
    /\ \A j \in DOMAIN str : j # i => str[j] \in Digits

\* the tier shortcuts _map_resolution knows
TierOf(normalized) ==
  IF normalized \in {<<"1", "k">>, <<"1", "0", "2", "4">>} THEN Str1K
  ELSE IF normalized \in {<<"2", "k">>, <<"2", "0", "4", "8">>} THEN Str2K
  ELSE IF normalized \in {<<"4", "k">>, <<"4", "0", "9", "6">>} THEN Str4K
  ELSE Unset

\* DoubaoProvider._map_resolution, lines 281-340: None, or the size
MapResolution(resolution, model) ==
  IF resolution = None \/ resolution[1] = <<>> THEN None
  ELSE IF Strip(resolution[1]) = <<>> THEN None
  ELSE LET normalized == Remove(Lower(Strip(resolution[1])), " ")
           model_normalized == Replace(Replace(Lower(model), "-", "."), "_", ".")
       IN IF IsWxH(normalized) THEN Some(normalized)
          ELSE IF Contains(model_normalized, <<"4", ".", "5">>)
          THEN (IF TierOf(normalized) = Str4K THEN Some(Str4K) ELSE Some(Str2K))
          ELSE IF Contains(model_normalized, <<"4", ".", "0">>)
          THEN (IF TierOf(normalized) # Unset THEN Some(TierOf(normalized)) ELSE Some(Str2K))
          ELSE (IF TierOf(normalized) = Str4K THEN Some(Str4K) ELSE Some(Str2K))

\* --- reference images

MaxImages == 16

DoubaoImageCap == 14       \* image_inputs[:14]
GoogleImageCap == 14       \* config.reference_images[:14]
OpenRouterImageCap == 6    \* config.reference_images[:6]

\* a reference image, by what the builders do with it: a URL that can be
\* fetched or cannot, a data URI, raw base64, a blank string, a local path
\* that can be read or cannot, an input the client normalises to data that
\* does not decode as base64; `id` is its place in the config
ImageKinds ==
  {"url", "url_dead", "data_uri", "raw_b64", "blank", "path_ok", "path_bad",
   "data_garbled"}

\* lists of 0 .. MaxImages reference images: URLs, but for at most one
\* image of any kind at any place
ImageLists ==
  UNION {{[i \in 1 .. n |-> [id |-> i, kind |-> IF i = odd THEN k ELSE "url"]] :
            odd \in 0 .. n, k \in ImageKinds} : n \in 0 .. MaxImages}

Prefix(seq, cap) == SubSeq(seq, 1, Min(Len(seq), cap))

\* the HTTP status of an error: None, or the answer's status
NoHttpStatus == 0

\* the APIError of an adapter (api_types.APIError as the adapters construct
\* it): status, type, code and the retryable flag, which is None when the
\* adapter passes none
AdapterError(status_code, error_type, error_code, retryable) ==
  [cls |-> "APIError", status_code |-> status_code, error_type |-> error_type,
   error_code |-> error_code, retryable |-> retryable]

\* the retryable flag of an APIError built without one: api_types.APIError
\* classifies an error as fatal unless the adapter says otherwise
NotPassed == Some(FALSE)

\* APIError(message, None, "invalid_reference_image"), lines 463-468 and
\* 483-487
InvalidReferenceImage ==
  AdapterError(NoHttpStatus, "invalid_reference_image", <<>>, NotPassed)

\* a mutant of the single image: an image that cannot be converted is dropped
ProcessSingleImageDropping(image, force_b64) ==
  IF image.kind \in {"url", "url_dead"} /\ ~force_b64
  THEN Gives(Some([id |-> image.id, form |-> "url"]))
  ELSE IF image.kind \in {"data_uri", "raw_b64", "url", "path_ok"}
  THEN Gives(Some([id |-> image.id, form |-> "data_uri"]))
  ELSE Gives(None)

\* DoubaoProvider._process_single_image, lines 424-496: the string put in
\* the payload (the URL as it is, or a data URI), None, or an APIError
ProcessSingleImage(image, force_b64) ==
  IF image.kind \in {"url", "url_dead"} /\ ~force_b64
  THEN Gives(Some([id |-> image.id, form |-> "url"]))
  ELSE IF image.kind \in {"data_uri", "raw_b64"}
  THEN Gives(Some([id |-> image.id, form |-> "data_uri"]))
  ELSE IF image.kind \in {"url", "path_ok"}       \* normalised by the client
  THEN Gives(Some([id |-> image.id, form |-> "data_uri"]))
  ELSE IF image.kind = "data_garbled"            \* normalised, does not decode
  THEN IF force_b64 THEN Throws(InvalidReferenceImage)
       ELSE Gives(Some([id |-> image.id, form |-> "data_uri"]))
  ELSE IF force_b64 THEN Throws(InvalidReferenceImage)
  ELSE Gives(None)

\* a mutant of the reference images: every image given is processed
RECURSIVE ProcessAllImages(_, _, _)
ProcessAllImages(image_inputs, force_b64, cap) ==
  IF image_inputs = <<>> THEN Gives(<<>>)
  ELSE IF Head(image_inputs).kind = "blank"
  THEN ProcessAllImages(Tail(image_inputs), force_b64, cap)
  ELSE LET first == ProcessSingleImage(Head(image_inputs), force_b64)
           rest == ProcessAllImages(Tail(image_inputs), force_b64, cap)
       IN IF first.kind = "raised" THEN first
          ELSE IF rest.kind = "raised" THEN rest
          ELSE Gives(first.value \o rest.value)

\* DoubaoProvider._process_reference_images, lines 379-422: the images of
\* the payload (one string or a list; empty for None), or an APIError
RECURSIVE ProcessReferenceImages(_, _, _)
ProcessReferenceImages(image_inputs, force_b64, cap) ==
  IF image_inputs = <<>> \/ cap = 0 THEN Gives(<<>>)
  ELSE IF Head(image_inputs).kind = "blank"
  THEN ProcessReferenceImages(Tail(image_inputs), force_b64, cap - 1)
  ELSE LET first == ProcessSingleImage(Head(image_inputs), force_b64)
       IN IF first.kind = "raised" THEN first
          ELSE LET rest == ProcessReferenceImages(Tail(image_inputs), force_b64, cap - 1)
               IN IF rest.kind = "raised" THEN rest
                  ELSE Gives(first.value \o rest.value)

\* --- Doubao, building

\* DoubaoProvider._prepare_payload, line 217
ResponseFormat(is_retry) == IF is_retry THEN "b64_json" ELSE "url"

\* the configs and settings build_request is called with
\* every model and resolution with at most one reference image, and every
\* list of reference images with the default model
DoubaoConfigs ==
  [model : Models, resolution : Resolutions,
   reference_images : {l \in ImageLists : Len(l) <= 1},
   image_input_mode : {"auto", "force_base64"}]
  \cup
  [model : {<<>>}, resolution : {None, Some(Str1K)}, reference_images : ImageLists,
   image_input_mode : {"auto", "force_base64"}]
DoubaoSettings == [default_size : {None, Some(Str1K)}]

\* DoubaoProvider._prepare_payload, lines 194-279: the payload, or the
\* APIError of a reference image
PreparePayload(config, doubao_settings, is_retry) ==
  LET model == IF config.model # <<>> THEN config.model ELSE DefaultDoubaoModel
      size == IF doubao_settings.default_size # None
                   /\ doubao_settings.default_size[1] # <<>>
              THEN MapResolution(doubao_settings.default_size, model)
              ELSE IF config.resolution # None /\ config.resolution[1] # <<>>
              THEN MapResolution(config.resolution, model)
              ELSE Some(Str2K)
      image_value == ProcessReferenceImages(config.reference_images,
                                            config.image_input_mode = "force_base64",
                                            DoubaoImageCap)
  IN IF image_value.kind = "raised" THEN image_value
     ELSE Gives([model |-> model,
                 response_format |-> ResponseFormat(is_retry),
                 size |-> IF size = None THEN Unset ELSE size[1],
                 image |-> image_value.value])

\* DoubaoProvider.build_request, lines 133-192, with an API key configured
DoubaoBuildRequest(config, doubao_settings, is_retry) ==
  /\ ad_op = "none"
  /\ ad_op' = "doubao.build_request"
  /\ ad_in' = [config |-> config, doubao_settings |-> doubao_settings,
               is_retry |-> is_retry]
  /\ ad_out' = PreparePayload(config, doubao_settings, is_retry)
  /\ UNCHANGED notAdapters

\* --- Doubao, errors

\* An error code is the sequence of its dotted parts, so that one code
\* starts with another when the sequence does.

\* NON_RETRYABLE_ERRORS, lines 22-60
NON_RETRYABLE_ERRORS ==
  {<<"MissingParameter">>, <<"InvalidParameter">>,
   <<"InvalidEndpoint", ".ClosedEndpoint">>, <<"InputTextRiskDetection">>,
   <<"InputImageRiskDetection">>, <<"OutputTextRiskDetection">>,
   <<"OutputImageRiskDetection">>, <<"SensitiveContentDetected">>,
   <<"SensitiveContentDetected", ".SevereViolation">>,
   <<"SensitiveContentDetected", ".Violence">>,
   <<"InputTextSensitiveContentDetected">>, <<"InputImageSensitiveContentDetected">>,
   <<"InputVideoSensitiveContentDetected">>, <<"OutputTextSensitiveContentDetected">>,
   <<"OutputImageSensitiveContentDetected">>,
   <<"OutputVideoSensitiveContentDetected">>, <<"InvalidImageURL", ".EmptyURL">>,
   <<"InvalidImageURL", ".InvalidFormat">>,
   <<"InvalidArgumentError", ".InvalidImageDetail">>,
   <<"InvalidArgumentError", ".InvalidPixelLimit">>, <<"AuthenticationError">>,
   <<"InvalidAccountStatus">>, <<"AccessDenied">>,
   <<"OperationDenied", ".PermissionDenied">>,
   <<"OperationDenied", ".ServiceNotOpen">>, <<"OperationDenied", ".ServiceOverdue">>,
   <<"AccountOverdueError">>, <<"InvalidEndpointOrModel", ".NotFound">>,
   <<"ModelNotOpen">>, <<"InvalidEndpointOrModel", ".ModelIDAccessDisabled">>,
   <<"InvalidSubscription">>, <<"UnsupportedModel">>}

\* RETRYABLE_ERRORS, lines 63-81
RETRYABLE_ERRORS ==
  {<<"RateLimitExceeded", ".EndpointRPMExceeded">>,
   <<"RateLimitExceeded", ".EndpointTPMExceeded">>,
   <<"ModelAccountRpmRateLimitExceeded">>, <<"ModelAccountTpmRateLimitExceeded">>,
   <<"APIAccountRpmRateLimitExceeded">>, <<"ModelAccountIpmRateLimitExceeded">>,
   <<"AccountRateLimitExceeded">>, <<"InflightBatchsizeExceeded">>,
   <<"QuotaExceeded">>, <<"SetLimitExceeded">>, <<"ServerOverloaded">>,
   <<"InternalServiceError">>, <<"ContentSecurityDetectionError">>}

\* the codes an answer may carry: none, the listed ones, listed ones with a
\* further part, and one that is in no list
ErrorCodes ==
  {<<>>, <<"SomethingElse">>} \cup NON_RETRYABLE_ERRORS \cup RETRYABLE_ERRORS
    \cup {code \o <<".detail">> : code \in {<<"MissingParameter">>, <<"QuotaExceeded">>,
                                            <<"SensitiveContentDetected">>}}

\* the statuses _build_api_error is given
ParseStatuses == {NoHttpStatus, 200, 400, 401, 403, 429, 500, 503}

\* DoubaoProvider._is_retryable_error, lines 653-682
DoubaoIsRetryableError(error_code, http_status) ==
  IF http_status # NoHttpStatus /\ http_status >= 500 /\ http_status < 600 THEN TRUE
  ELSE IF http_status = 429 THEN TRUE
  ELSE IF error_code \in RETRYABLE_ERRORS THEN TRUE
  ELSE IF \E prefix \in RETRYABLE_ERRORS : StartsWith(error_code, prefix) THEN TRUE
  ELSE IF error_code \in NON_RETRYABLE_ERRORS THEN FALSE
  ELSE IF \E prefix \in NON_RETRYABLE_ERRORS : StartsWith(error_code, prefix) THEN FALSE
  ELSE FALSE

\* the "type" field of a vendor error: absent or given
ErrorTypes == {"", "invalid_request_error"}

\* DoubaoProvider._build_api_error, lines 684-702
BuildApiError(error_code, error_type, http_status) ==
  AdapterError(http_status, IF error_type = "" THEN "DoubaoError" ELSE error_type,
               error_code, Some(DoubaoIsRetryableError(error_code, http_status)))

\* _build_api_error is called for a vendor error
DoubaoBuildApiError(error_code, error_type, http_status) ==
  /\ ad_op = "none"
  /\ ad_op' = "doubao.build_api_error"
  /\ ad_in' = [error_code |-> error_code, error_type |-> error_type,
               http_status |-> http_status]
  /\ ad_out' = Gives(BuildApiError(error_code, error_type, http_status))
  /\ UNCHANGED notAdapters

\* --- parsing the answer of an image endpoint

\* An item of the "data" array:
\*   url                 {"url": "https://..."} that downloads
\*   url_undownloadable  {"url": "https://..."} whose download fails
\*   b64_saved           {"b64_json": "..."} that save_base64_image stores
\*   b64_unsaved         {"b64_json": "..."} that save_base64_image cannot store
\*   error               {"error": {"code": ..., "message": ...}}
\*   revised_prompt      {"revised_prompt": "..."} and nothing else
\*   empty               {}
\*   non_dict            a string
ItemKinds ==
  {"url", "url_undownloadable", "b64_saved", "b64_unsaved", "error",
   "revised_prompt", "empty", "non_dict"}

MaxItems == 2

ItemLists == UNION {[1..n -> ItemKinds] : n \in 0..MaxItems}

\* The "data" field: absent, something that is not a list (an object), a list
DataShapes ==
  {[shape |-> "absent", items |-> <<>>], [shape |-> "non_list", items |-> <<>>]}
    \cup {[shape |-> "list", items |-> items] : items \in ItemLists}

\* The "error" field: absent (or null), not an object, an object without a
\* message, an object with a message
ErrorShapes == {"absent", "non_dict", "dict_no_message", "dict_message"}

\* the codes of the vendor errors the answers carry
ResponseCodes == {<<>>, <<"SensitiveContentDetected">>, <<"ServerOverloaded">>}

\* the answers: a body that is no JSON object, and the objects
ResponseData ==
  {[is_dict |-> FALSE, error |-> "absent", error_code |-> <<>>,
    data |-> [shape |-> "absent", items |-> <<>>]]}
    \cup [is_dict : {TRUE}, error : ErrorShapes, error_code : ResponseCodes,
          data : DataShapes]

\* the statuses of the answers parse_response is given
ResponseStatuses == {200, 429, 500}

\* what parse_response returns: the images by the position of their item in
\* "data", and the text
ParsedImages(image_urls, image_paths, text_content) ==
  [image_urls |-> image_urls, image_paths |-> image_paths,
   text_content |-> text_content]

Positions(items) == [i \in 1..Len(items) |-> i]

PositionsOf(items, kinds) ==
  SelectSeq(Positions(items), LAMBDA i : items[i] \in kinds)

\* the "data" field is falsy: absent, None or an empty list
DataIsEmpty(data) ==
  \/ data.shape = "absent"
  \/ data.shape = "list" /\ data.items = <<>>

\* DoubaoProvider.parse_response, lines 498-636
DoubaoParseResponse(response_data, http_status) ==
  IF ~response_data.is_dict
    THEN Throws(AdapterError(http_status, "MalformedResponse",
                             <<"InvalidResponseType">>, Some(TRUE)))
  ELSE IF response_data.error = "dict_message" /\ DataIsEmpty(response_data.data)
    THEN Throws(BuildApiError(response_data.error_code, "", http_status))
  ELSE
    LET items == IF response_data.data.shape = "list"
                   THEN response_data.data.items ELSE <<>>
        image_urls ==
          PositionsOf(items, {"url", "url_undownloadable", "b64_saved"})
        image_paths == PositionsOf(items, {"b64_saved"})
    IN IF image_urls = <<>> /\ image_paths = <<>>
         THEN IF response_data.error = "non_dict"
                THEN Throws(AdapterError(http_status, "MalformedError",
                                         <<"InvalidErrorFormat">>, Some(TRUE)))
              ELSE IF response_data.error = "dict_no_message"
                THEN Throws(AdapterError(http_status, "IncompleteError",
                                         <<"MissingErrorMessage">>, Some(TRUE)))
              ELSE IF response_data.error = "absent"
                THEN Throws(AdapterError(http_status, "EmptyResponse",
                                         <<"NoDataReturned">>, Some(TRUE)))
              ELSE Gives(ParsedImages(image_urls, image_paths, None))
         ELSE Gives(ParsedImages(image_urls, image_paths, None))

\* an exception of Python itself (AttributeError, TypeError), raised where the
\* code uses a value of the wrong type
PythonError(cls) ==
  [cls |-> cls, status_code |-> NoHttpStatus, error_type |-> "",
   error_code |-> <<>>, retryable |-> None]

\* APIError(message): nothing but the message is passed
MessageError == AdapterError(NoHttpStatus, "", <<>>, NotPassed)

\* the scan of the "data" list that GLM and WhatAI share: an item with a URL
\* gives the URL, and its path when the download succeeds; an item with
\* b64_json gives the path when it is stored; text is the revised_prompt of
\* the first item
ScanData(items) ==
  ParsedImages(PositionsOf(items, {"url", "url_undownloadable"}),
               PositionsOf(items, {"url", "b64_saved"}),
               IF items # <<>> /\ items[1] = "revised_prompt"
                 THEN Some("revised_prompt") ELSE None)

\* GLMProvider.parse_response, lines 125-198
GLMParseResponse(response_data) ==
  IF ~response_data.is_dict THEN Throws(PythonError("AttributeError"))
  ELSE IF response_data.error = "non_dict" THEN Throws(PythonError("AttributeError"))
  ELSE IF response_data.error # "absent" THEN Throws(MessageError)
  ELSE IF DataIsEmpty(response_data.data) THEN Gives(ParsedImages(<<>>, <<>>, None))
  ELSE Gives(ScanData(response_data.data.items))

\* WhatAIProvider.parse_response, lines 174-250
WhatAIParseResponse(response_data) ==
  IF ~response_data.is_dict THEN Throws(PythonError("AttributeError"))
  ELSE IF response_data.error # "absent" THEN Throws(MessageError)
  ELSE IF DataIsEmpty(response_data.data) THEN Gives(ParsedImages(<<>>, <<>>, None))
  ELSE Gives(ScanData(response_data.data.items))

\* the answers whose "data" the two parsers can iterate: a list, or nothing
ListedResponseData == {r \in ResponseData : r.data.shape # "non_list"}

\* parse_response of one adapter is called with an answer
ParseResponseOf(adapter, response_data, http_status) ==
  /\ ad_op = "none"
  /\ ad_op' = "parse_response"
  /\ ad_in' = [adapter |-> adapter, response_data |-> response_data,
               http_status |-> http_status]
  /\ ad_out' = CASE adapter = "doubao" ->
                      DoubaoParseResponse(response_data, http_status)
                 [] adapter = "glm" -> GLMParseResponse(response_data)
                 [] adapter = "whatai" -> WhatAIParseResponse(response_data)
  /\ UNCHANGED notAdapters

\* --- Google and OpenAI-compatible payloads of the API client, WhatAI

GoogleConfigs == [resolution : Resolutions, reference_images : ImageLists]

\* _prepare_google_payload, lines 110-178: the inlineData parts and
\* generationConfig.imageConfig.imageSize
GooglePayload(config) ==
  [image |-> [i \in DOMAIN Prefix(config.reference_images, GoogleImageCap) |->
                [id |-> config.reference_images[i].id, form |-> "inline_data"]],
   size |-> IF config.resolution # None /\ config.resolution[1] # <<>>
                 /\ Upper(config.resolution[1]) \in {Str1K, Str2K, Str4K}
            THEN Upper(config.resolution[1])
            ELSE Unset]

PrepareGooglePayload(config) ==
  /\ ad_op = "none"
  /\ ad_op' = "google.prepare_payload"
  /\ ad_in' = [config |-> config]
  /\ ad_out' = Gives(GooglePayload(config))
  /\ UNCHANGED notAdapters

\* _prepare_openrouter_payload, lines 180-203: the image_url parts of the
\* message; the payload has no size
OpenrouterPayload(config) ==
  [image |-> [i \in DOMAIN Prefix(config.reference_images, OpenRouterImageCap) |->
                [id |-> config.reference_images[i].id, form |-> "image_url"]]]

PrepareOpenrouterPayload(config) ==
  /\ ad_op = "none"
  /\ ad_op' = "openai.prepare_payload"
  /\ ad_in' = [config |-> config]
  /\ ad_out' = Gives(OpenrouterPayload(config))
  /\ UNCHANGED notAdapters

\* WhatAIProvider._resolve_size, lines 161-172: the keys of SIZE_MAPPING
\* with a lower-case x are never equal to the upper-cased setting
WhatAIResolveSize(config) ==
  IF config.resolution # None /\ config.resolution[1] # <<>>
  THEN LET resolution == Upper(Strip(config.resolution[1]))
       IN IF resolution \in {Str1K, Str2K, Str4K} THEN resolution ELSE Str1K
  ELSE Str1K

\* WhatAIProvider.build_request, lines 47-134: every image that is not
\* blank and resolves to a file is added to the form, and nothing raises
WhatAIForm(config) ==
  [image |-> [i \in DOMAIN SelectSeq(config.reference_images,
                     LAMBDA im : im.kind \in {"url", "data_uri", "raw_b64", "path_ok"}) |->
                [id |-> SelectSeq(config.reference_images,
                     LAMBDA im : im.kind \in {"url", "data_uri", "raw_b64", "path_ok"})[i].id,
                 form |-> "file"]],
   size |-> WhatAIResolveSize(config)]

WhatAIBuildRequest(config) ==
  /\ ad_op = "none"
  /\ ad_op' = "whatai.build_request"
  /\ ad_in' = [config |-> config]
  /\ ad_out' = Gives(WhatAIForm(config))
  /\ UNCHANGED notAdapters

\* get_api_provider(api_type) is called
GetApiProvider(api_type) ==
  /\ ad_op = "none"
  /\ ad_op' = "get_api_provider"
  /\ ad_in' = [api_type |-> api_type]
  /\ ad_out' = [provider |-> GetApiProviderOf(api_type)]
  /\ UNCHANGED notAdapters

\* one call in a behaviour: the functions keep nothing between calls
NextAdapters ==
  \/ ad_op = "none" /\ \E api_type \in Identifiers : GetApiProvider(api_type)
  \/ ad_op = "none" /\
       \E config \in DoubaoConfigs, doubao_settings \in DoubaoSettings, is_retry \in BOOLEAN :
         DoubaoBuildRequest(config, doubao_settings, is_retry)
  \/ ad_op = "none" /\ \E config \in GoogleConfigs : PrepareGooglePayload(config)
  \/ ad_op = "none" /\
       \E config \in [reference_images : ImageLists] : PrepareOpenrouterPayload(config)
  \/ ad_op = "none" /\ \E config \in GoogleConfigs : WhatAIBuildRequest(config)
  \/ ad_op = "none" /\
       \E error_code \in ErrorCodes, error_type \in ErrorTypes,
          http_status \in ParseStatuses :
         DoubaoBuildApiError(error_code, error_type, http_status)
  \/ ad_op = "none" /\
       \E response_data \in ResponseData, http_status \in ResponseStatuses :
         ParseResponseOf("doubao", response_data, http_status)
  \/ ad_op = "none" /\
       \E adapter \in {"glm", "whatai"}, response_data \in ListedResponseData :
         ParseResponseOf(adapter, response_data, NoHttpStatus)

\* -------------------------------------------------------------- avatars
\* AvatarHandler.get_avatar_reference (avatar_handler.py 49-149) and the
\* plugin's own copy of it (main.py 66-177).

\* the users whose avatars one call downloads at most
MaxDownloads == 3

\* how a download ends: the avatar as a string, None, an exception
DownloadOutcomes == {"image", "none", "exception"}

ParkedAvatars ==
  /\ av_pc = "idle"
  /\ av_tasks = <<>>
  /\ av_images = <<>>
  /\ av_timed_out = FALSE

\* the results of gather that are non-empty strings, in the order of the
\* tasks, lines 135-139
CollectAvatars(results) ==
  SelectSeq([i \in 1 .. Len(results) |-> i], LAMBDA i : results[i] = "image")

\* get_avatar_reference is called for a message that names `users` users (the
\* mentioned ones, or the sender); with no download task it returns at once,
\* lines 106-129
GetAvatarReference(users) ==
  /\ av_pc = "idle"
  /\ av_tasks' = [i \in 1 .. users |-> "pending"]
  /\ av_pc' = IF users = 0 THEN "returned" ELSE "gathering"
  /\ av_images' = <<>>
  /\ av_timed_out' = FALSE
  /\ UNCHANGED notAvatars

\* one download_qq_avatar task ends while the call waits in gather
DownloadEnds(i, outcome) ==
  /\ av_pc = "gathering"
  /\ i \in 1 .. Len(av_tasks)
  /\ av_tasks[i] = "pending"
  /\ av_tasks' = [av_tasks EXCEPT ![i] = outcome]
  /\ UNCHANGED <<notAvatars, av_pc, av_images, av_timed_out>>

\* every task has ended: gather(return_exceptions=True) gives the results
\* and the call collects the avatars, lines 131-143
GatherReturns ==
  /\ av_pc = "gathering"
  /\ \A i \in 1 .. Len(av_tasks) : av_tasks[i] # "pending"
  /\ av_images' = CollectAvatars(av_tasks)
  /\ av_pc' = "returned"
  /\ UNCHANGED <<notAvatars, av_tasks, av_timed_out>>

\* the 8 seconds of wait_for pass while a task is pending: gather is
\* cancelled, TimeoutError is raised in place of the results and the handler
\* at lines 144-145 only logs
TimeoutExpires ==
  /\ av_pc = "gathering"
  /\ \E i \in 1 .. Len(av_tasks) : av_tasks[i] = "pending"
  /\ av_tasks' = [i \in 1 .. Len(av_tasks) |->
                    IF av_tasks[i] = "pending" THEN "cancelled" ELSE av_tasks[i]]
  /\ av_timed_out' = TRUE
  /\ av_pc' = "returned"
  /\ UNCHANGED <<notAvatars, av_images>>

\* the caller takes the list and the handler is ready for the next message
AvatarsTaken ==
  /\ av_pc = "returned"
  /\ av_pc' = "idle"
  /\ av_tasks' = <<>>
  /\ av_images' = <<>>
  /\ av_timed_out' = FALSE
  /\ UNCHANGED notAvatars

NextAvatars ==
  \/ \E users \in 0 .. MaxDownloads : GetAvatarReference(users)
  \/ \E i \in 1 .. MaxDownloads, outcome \in DownloadOutcomes : DownloadEnds(i, outcome)
  \/ GatherReturns
  \/ TimeoutExpires
  \/ AvatarsTaken

\* ---------------------------------------------------------- image files
\* save_base64_image, save_image_data and cleanup_old_images of
\* utils/image_manager.py, and the parsers that call them for an answer whose
\* images come as b64_json.

\* A base64 string is the sequence of its characters, each by its place in
\* the base64 alphabet (0 .. 63), "=" as PadChar and a line feed, which is
\* outside the alphabet, as LineFeed.
PadChar == 64
LineFeed == 65

\* the bytes of an image, and images of 0 .. MaxBytes bytes
MaxBytes == 3
ByteValues == {0, 137, 255}
ByteStrings == UNION {[1 .. n -> ByteValues] : n \in 0 .. MaxBytes}

\* base64.b64encode: three bytes give four characters, the rest is padded
RECURSIVE B64Encode(_)
B64Encode(bytes) ==
  IF bytes = <<>> THEN <<>>
  ELSE IF Len(bytes) = 1
  THEN <<bytes[1] \div 4, (bytes[1] % 4) * 16, PadChar, PadChar>>
  ELSE IF Len(bytes) = 2
  THEN <<bytes[1] \div 4, (bytes[1] % 4) * 16 + bytes[2] \div 16,
         (bytes[2] % 16) * 4, PadChar>>
  ELSE <<bytes[1] \div 4, (bytes[1] % 4) * 16 + bytes[2] \div 16,
         (bytes[2] % 16) * 4 + bytes[3] \div 64, bytes[3] % 64>>
         \o B64Encode(SubSeq(bytes, 4, Len(bytes)))

\* binascii.Error
DecodeError == [kind |-> "raised", value |-> "binascii.Error"]

\* base64.b64decode(s) with validate=False, as binascii.a2b_base64 computes
\* it: characters outside the alphabet are skipped, a complete padding ends
\* the data, an incomplete last group is an error
RECURSIVE A2bBase64(_, _, _, _, _)
A2bBase64(ascii, quad_pos, leftchar, pads, bin) ==
  IF ascii = <<>>
  THEN IF quad_pos # 0 THEN DecodeError ELSE Gives(bin)
  ELSE LET this_ch == Head(ascii)
           rest == Tail(ascii)
       IN IF this_ch = PadChar
          THEN IF quad_pos >= 2 /\ quad_pos + pads + 1 >= 4 THEN Gives(bin)
               ELSE A2bBase64(rest, quad_pos, leftchar,
                              IF quad_pos >= 2 THEN pads + 1 ELSE pads, bin)
          ELSE IF this_ch > 63
          THEN A2bBase64(rest, quad_pos, leftchar, pads, bin)
          ELSE IF quad_pos = 0 THEN A2bBase64(rest, 1, this_ch, 0, bin)
          ELSE IF quad_pos = 1
          THEN A2bBase64(rest, 2, this_ch % 16, 0,
                         Append(bin, (leftchar * 4 + this_ch \div 16) % 256))
          ELSE IF quad_pos = 2
          THEN A2bBase64(rest, 3, this_ch % 4, 0,
                         Append(bin, (leftchar * 16 + this_ch \div 4) % 256))
          ELSE A2bBase64(rest, 0, 0, 0,
                         Append(bin, (leftchar * 64 + this_ch) % 256))

B64Decode(base64_string) == A2bBase64(base64_string, 0, 0, 0, <<>>)

\* the age, in units of the clock, beyond which a file is cleaned up
\* (timedelta(minutes=15))
CleanupAge == 1

\* cleanup_old_images, lines 12-58: the files modified before the cutoff
\* are deleted
CleanupOldImages(files, now) ==
  {file \in files : ~(file.mtime < now - CleanupAge)}

\* save_image_data, lines 63-104: old files are cleaned up, then the data is
\* written to a file named by the time stamp; None when the write fails
SaveImageData(files, image_data, now, stamp, writable) ==
  IF ~writable THEN [files |-> CleanupOldImages(files, now), path |-> None]
  ELSE [files |-> {file \in CleanupOldImages(files, now) : file.name # stamp}
                    \cup {[name |-> stamp, data |-> image_data, mtime |-> now]},
        path |-> Some(stamp)]

\* a mutant of save_base64_image: the string is written as it came
SaveBase64ImageRaw(files, base64_string, now, stamp, writable) ==
  SaveImageData(files, base64_string, now, stamp, writable)

\* save_base64_image, lines 107-127
SaveBase64Image(files, base64_string, now, stamp, writable) ==
  IF B64Decode(base64_string).kind = "raised"
  THEN [files |-> files, path |-> None]
  ELSE SaveImageData(files, B64Decode(base64_string).value, now, stamp, writable)

\* the file a path names, as read back
ReadFile(files, path) == (CHOOSE file \in files : file.name = path).data

\* An item of "data" with b64_json and no url: the bytes the vendor encoded,
\* and how the string arrives: as encoded, with a line feed after the first
\* character, without its last character, or as encoded while the images
\* directory cannot be written
PayloadForms == {"canonical", "line_feed", "truncated", "unwritable"}

B64Items == [bytes : ByteStrings, form : PayloadForms]

B64Json(item) ==
  LET encoded == B64Encode(item.bytes)
  IN IF item.form = "line_feed" /\ encoded # <<>>
       THEN <<Head(encoded), LineFeed>> \o Tail(encoded)
     ELSE IF item.form = "truncated" /\ encoded # <<>>
       THEN SubSeq(encoded, 1, Len(encoded) - 1)
     ELSE encoded

\* answers with one item, or with two of which the second is as encoded
B64Answers ==
  {<<item>> : item \in B64Items}
    \cup {<<item, [bytes |-> bytes, form |-> "canonical"]>> :
            item \in B64Items, bytes \in ByteStrings}

\* the scan of DoubaoProvider.parse_response, lines 551-580, over items with
\* b64_json: each non-empty string is saved, and the path of each saved file
\* is kept with the place of its item; two saves never get the same time
\* stamp
RECURSIVE DoubaoSaveItems(_, _, _, _, _)
DoubaoSaveItems(items, k, files, now, stamp) ==
  IF k > Len(items) THEN [files |-> files, paths |-> <<>>, stamp |-> stamp]
  ELSE IF B64Json(items[k]) = <<>>
  THEN DoubaoSaveItems(items, k + 1, files, now, stamp)
  ELSE LET saved == SaveBase64Image(files, B64Json(items[k]), now, stamp,
                                    items[k].form # "unwritable")
           rest == DoubaoSaveItems(items, k + 1, saved.files, now, stamp + 1)
       IN IF saved.path = None THEN rest
          ELSE [rest EXCEPT !.paths = <<[item |-> k, path |-> saved.path[1]]>> \o @]

\* the "data" branch of _parse_openrouter_response, tl_api.py 567-577, over
\* items with b64_json: the first item that is saved is returned
RECURSIVE OpenrouterSaveItems(_, _, _, _, _)
OpenrouterSaveItems(items, k, files, now, stamp) ==
  IF k > Len(items) THEN [files |-> files, paths |-> <<>>, stamp |-> stamp]
  ELSE LET saved == SaveBase64Image(files, B64Json(items[k]), now, stamp,
                                    items[k].form # "unwritable")
       IN IF saved.path = None
          THEN OpenrouterSaveItems(items, k + 1, saved.files, now, stamp + 1)
          ELSE [files |-> saved.files, stamp |-> stamp + 1,
                paths |-> <<[item |-> k, path |-> saved.path[1]]>>]

\* the clock values the parse may happen at
MaxClock == 2

\* a file that an earlier answer left in the images directory
OldFile == [name |-> 0, data |-> <<137>>, mtime |-> 0]

ParkedImages ==
  /\ im_files = {}
  /\ im_now = 0
  /\ im_stamp = 1
  /\ im_pc = "idle"
  /\ im_in = <<>>
  /\ im_out = <<>>

\* the images directory is empty or holds an older file
InitImages ==
  /\ im_files \in {{}, {OldFile}}
  /\ im_now \in 0 .. MaxClock
  /\ im_stamp = 1
  /\ im_pc = "idle"
  /\ im_in = <<>>
  /\ im_out = <<>>

\* parse_response of the Doubao adapter is given an answer whose items
\* carry b64_json only
DoubaoParseB64(items) ==
  /\ im_pc = "idle"
  /\ im_pc' = "parsed"
  /\ im_in' = [adapter |-> "doubao", items |-> items]
  /\ im_files' = DoubaoSaveItems(items, 1, im_files, im_now, im_stamp).files
  /\ im_stamp' = DoubaoSaveItems(items, 1, im_files, im_now, im_stamp).stamp
  /\ im_out' = DoubaoSaveItems(items, 1, im_files, im_now, im_stamp).paths
  /\ UNCHANGED <<notImages, im_now>>

\* _parse_openrouter_response is given an answer whose "data" items carry
\* b64_json only
OpenrouterParseB64(items) ==
  /\ im_pc = "idle"
  /\ im_pc' = "parsed"
  /\ im_in' = [adapter |-> "openai", items |-> items]
  /\ im_files' = OpenrouterSaveItems(items, 1, im_files, im_now, im_stamp).files
  /\ im_stamp' = OpenrouterSaveItems(items, 1, im_files, im_now, im_stamp).stamp
  /\ im_out' = OpenrouterSaveItems(items, 1, im_files, im_now, im_stamp).paths
  /\ UNCHANGED <<notImages, im_now>>

NextImages ==
  \/ im_pc = "idle" /\ \E items \in B64Answers : DoubaoParseB64(items)
  \/ im_pc = "idle" /\ \E items \in B64Answers : OpenrouterParseB64(items)

\* ------------------------------------- the legacy limiter and its migration
\* A value of the raw config is absent, a boolean, an integer, or a text
\* that int() refuses.

Absent == [kind |-> "absent"]
Bool(b) == [kind |-> "bool", value |-> b]
IntValue(n) == [kind |-> "int", value |-> n]
Text == [kind |-> "text"]
List(items) == [kind |-> "list", value |-> items]

\* the defaults of rate_limit_period / period_seconds and of
\* max_requests_per_group / max_requests
DefaultPeriod == 60
DefaultMaxRequests == 5

\* dict.get(key, default)
GetOr(raw, default) == IF raw.kind = "absent" THEN IntValue(default) ELSE raw

\* bool(value), and the test `if value`
Truthy(raw) ==
  IF raw.kind = "absent" THEN FALSE
  ELSE IF raw.kind = "bool" THEN raw.value
  ELSE IF raw.kind = "int" THEN raw.value # 0
  ELSE IF raw.kind = "list" THEN raw.value # <<>>
  ELSE TRUE

\* try: max(int(value), 1)  except (TypeError, ValueError): default
AtLeastOne(raw, default) ==
  IF raw.kind = "int" THEN (IF raw.value > 1 THEN raw.value ELSE 1)
  ELSE IF raw.kind = "bool" THEN 1
  ELSE default

\* the list mode as both loaders normalise it
ListMode(raw_mode) ==
  IF raw_mode \in {"none", "whitelist", "blacklist"} THEN raw_mode ELSE "none"

\* limit_settings in the legacy format
LegacySettings(enable, period, max_requests, mode, list) ==
  [enable_rate_limit |-> enable, rate_limit_period |-> period,
   max_requests_per_group |-> max_requests, group_limit_mode |-> mode,
   group_limit_list |-> list, rate_limit_rules |-> Absent]

\* the values a legacy config may hold for a period or a maximum
RawNumbers == {Absent, Text} \cup {IntValue(n) : n \in 0 .. MaxPeriod}

\* the legacy configs: every shape of the period, every shape of the
\* maximum, the config that leaves both to the defaults, and every list with
\* the limit on or off
LegacyConfigs ==
  {LegacySettings(enable, period, IntValue(1), "none", {}) :
     enable \in {Absent, Bool(TRUE), Bool(FALSE)}, period \in RawNumbers}
  \cup
  {LegacySettings(enable, IntValue(1), max_requests, "none", {}) :
     enable \in {Absent, Bool(TRUE), Bool(FALSE)}, max_requests \in RawNumbers}
  \cup
  {LegacySettings(Bool(TRUE), Absent, Absent, "none", {})}
  \cup
  {LegacySettings(Bool(e), IntValue(1), IntValue(1), mode, list) :
     e \in BOOLEAN, mode \in {"whitelist", "blacklist", "other"},
     list \in {{}, {1}}}

\* the plugin's __init__, lines 256-283: the attributes of the legacy limiter
LegacyLoad(limit_settings) ==
  [group_limit_mode |-> ListMode(limit_settings.group_limit_mode),
   group_limit_list |-> limit_settings.group_limit_list,
   enable_rate_limit |-> Truthy(limit_settings.enable_rate_limit),
   rate_limit_period |->
     AtLeastOne(GetOr(limit_settings.rate_limit_period, DefaultPeriod), DefaultPeriod),
   max_requests_per_group |->
     AtLeastOne(GetOr(limit_settings.max_requests_per_group, DefaultMaxRequests),
                DefaultMaxRequests)]

\* a mutant of the migration: the rule is given the default period and maximum
MigrateConfigDefaults(limit_settings) ==
  IF limit_settings.enable_rate_limit.kind # "absent"
       /\ limit_settings.rate_limit_rules.kind = "absent"
  THEN IF Truthy(limit_settings.enable_rate_limit)
       THEN [limit_settings EXCEPT !.rate_limit_rules =
               List(<<[group_ids |-> {}, enabled |-> Bool(TRUE),
                       period_seconds |-> IntValue(DefaultPeriod),
                       max_requests |-> IntValue(DefaultMaxRequests)]>>)]
       ELSE [limit_settings EXCEPT !.rate_limit_rules = List(<<>>)]
  ELSE limit_settings

\* ConfigLoader._migrate_config, part 1: limit_settings after the migration
MigrateConfig(limit_settings) ==
  IF limit_settings.enable_rate_limit.kind # "absent"
       /\ limit_settings.rate_limit_rules.kind = "absent"
  THEN IF Truthy(limit_settings.enable_rate_limit)
       THEN [limit_settings EXCEPT !.rate_limit_rules =
               List(<<[group_ids |-> {}, enabled |-> Bool(TRUE),
                       period_seconds |->
                         GetOr(limit_settings.rate_limit_period, DefaultPeriod),
                       max_requests |->
                         GetOr(limit_settings.max_requests_per_group,
                               DefaultMaxRequests)]>>)]
       ELSE [limit_settings EXCEPT !.rate_limit_rules = List(<<>>)]
  ELSE limit_settings

\* ConfigLoader._load_limit_settings, lines 550-574: one rule of the list
LoadRule(rule) ==
  Rule(Truthy(rule.enabled), rule.group_ids,
       AtLeastOne(rule.period_seconds, DefaultPeriod),
       AtLeastOne(rule.max_requests, DefaultMaxRequests))

\* ConfigLoader._load_limit_settings: the configuration of the RateLimiter.
\* A legacy config has no default_rate_limit.
LoadLimitSettings(limit_settings) ==
  LET raw == IF Truthy(limit_settings.rate_limit_rules)
             THEN limit_settings.rate_limit_rules.value ELSE <<>>
  IN [group_limit_mode |-> ListMode(limit_settings.group_limit_mode),
      group_limit_list |-> limit_settings.group_limit_list,
      rate_limit_rules |-> [i \in DOMAIN raw |-> LoadRule(raw[i])],
      default_rate_limit |-> Rule(FALSE, {}, DefaultPeriod, DefaultMaxRequests)]

\* what _check_and_consume_limit returned: allowed, and the numbers of the
\* message (NoMessage: the message is None)
LegacyOutcome(allowed, retry_after, period, max_requests) ==
  [allowed |-> allowed, retry_after |-> retry_after, period |-> period,
   max_requests |-> max_requests]

\* _check_and_consume_limit, lines 353-378: the new bucket of the group and
\* what is returned
LegacyConsume(bucket, period, max_requests, now) ==
  LET window_start == now - period * TicksPerSecond
      keep(ts) == ts >= window_start
      kept == SelectSeq(bucket, keep)
  IN IF Len(kept) >= max_requests
     THEN LET retry_after == IntSeconds(kept[1] + period * TicksPerSecond - now)
          IN [bucket |-> kept,
              ret |-> LegacyOutcome(FALSE, IF retry_after < 0 THEN 0 ELSE retry_after,
                                    period, max_requests)]
     ELSE [bucket |-> Append(kept, now),
           ret |-> LegacyOutcome(TRUE, NoMessage, 0, 0)]

\* _check_and_consume_limit of the legacy plugin for an event of the group
\* group_id at the time now: what it does to the legacy limiter
CheckAndConsumeLimit(group_id, now) ==
  LET self == LegacyLoad(lg_settings)
  IN /\ UNCHANGED lg_settings
     /\ IF group_id = NoGroup
        THEN /\ lg_ret' = LegacyOutcome(TRUE, NoMessage, 0, 0)
             /\ UNCHANGED lg_buckets
        ELSE IF \/ /\ self.group_limit_mode = "whitelist"
                   /\ self.group_limit_list # {}
                   /\ group_id \notin self.group_limit_list
                \/ /\ self.group_limit_mode = "blacklist"
                   /\ self.group_limit_list # {}
                   /\ group_id \in self.group_limit_list
        THEN /\ lg_ret' = LegacyOutcome(FALSE, NoMessage, 0, 0)
             /\ UNCHANGED lg_buckets
        ELSE IF ~self.enable_rate_limit
        THEN /\ lg_ret' = LegacyOutcome(TRUE, NoMessage, 0, 0)
             /\ UNCHANGED lg_buckets
        ELSE LET r == LegacyConsume(lg_buckets[group_id], self.rate_limit_period,
                                    self.max_requests_per_group, now)
             IN /\ lg_buckets' = [lg_buckets EXCEPT ![group_id] = r.bucket]
                /\ lg_ret' = r.ret

ParkedLegacy ==
  /\ lg_settings = LegacySettings(Absent, Absent, Absent, "none", {})
  /\ lg_buckets = EmptyBuckets
  /\ lg_ret = LegacyOutcome(TRUE, NoMessage, 0, 0)

\* the legacy plugin is started on a legacy config, and next to it the
\* RateLimiter on what ConfigLoader.load makes of the same config; the store
\* of the RateLimiter is empty
InitMigration ==
  /\ lg_settings \in LegacyConfigs
  /\ lg_buckets = EmptyBuckets
  /\ lg_ret = LegacyOutcome(TRUE, NoMessage, 0, 0)
  /\ rl_config = LoadLimitSettings(MigrateConfig(lg_settings))
  /\ rate_limit_buckets = EmptyBuckets
  /\ rl_loaded = FALSE
  /\ rl_kv = <<>>
  /\ clock = 0
  /\ rl_lock = <<>>
  /\ rl_pc = Idle
  /\ rl_call = [c \in Callers |-> NoCall]
  /\ rl_ret = Outcome(NoGroup, 0, "none", NoLimits, TRUE, NoMessage)
  /\ admitted = EmptyBuckets
  /\ rl_restarts = 0
  /\ rl_calls = 0

\* one event is given to both limiters at the same time
RequestBoth(group_id) ==
  /\ CheckAndConsumeRL(group_id)
  /\ CheckAndConsumeLimit(group_id, clock)
  /\ UNCHANGED notLimiters

NextMigration ==
  \/ \E group_id \in Groups \cup {NoGroup} : RequestBoth(group_id)
  \/ Tick

\* --------------------------------------------------------- the commands
\* The handlers of the generate command and of the quick-mode commands are
\* coroutines of one event loop: a handler runs alone from one await or yield
\* to the next, and the other handlers run while it is suspended.

\* the handlers that may run together
MaxCommands == 2

Handlers == 1 .. MaxCommands

Settings(resolution, aspect_ratio) ==
  [resolution |-> resolution, aspect_ratio |-> aspect_ratio]

\* what the quick-mode handlers assign to self.resolution, self.aspect_ratio
QuickPresets ==
  [quick_avatar |-> Settings("1K", "1:1"),
   quick_poster |-> Settings("2K", "16:9"),
   quick_wallpaper |-> Settings("4K", "16:9"),
   quick_card |-> Settings("1K", "3:2"),
   quick_mobile |-> Settings("2K", "9:16")]

QuickCommands == DOMAIN QuickPresets

\* image_generation_settings: the defaults, or values no preset has
ConfiguredSettings == {Settings("1K", "1:1"), Settings("4K", "4:3")}

NoSettings == Settings("", "")

\* a handler that was not called yet
NoCommand ==
  [command |-> "none", pc |-> "idle", old |-> NoSettings, config |-> NoSettings]

ParkedCommands ==
  /\ qm_configured = Settings("1K", "1:1")
  /\ qm_resolution = "1K"
  /\ qm_aspect_ratio = "1:1"
  /\ qm_commands = [h \in Handlers |-> NoCommand]

\* the plugin was built from its config and no command came yet
InitCommands ==
  /\ qm_configured \in ConfiguredSettings
  /\ qm_resolution = qm_configured.resolution
  /\ qm_aspect_ratio = qm_configured.aspect_ratio
  /\ qm_commands = [h \in Handlers |-> NoCommand]

\* generate_image up to the yield of its first message: the limit check,
\* which ends the handler when it denies, and should_use_avatar
GenerateImageCommand(h, allowed) ==
  /\ qm_commands[h].pc = "idle"
  /\ qm_commands' =
       [qm_commands EXCEPT ![h].command = "generate_image",
                           ![h].pc = IF allowed THEN "generating" ELSE "done"]
  /\ UNCHANGED <<notCommands, qm_configured, qm_resolution, qm_aspect_ratio>>

\* a quick-mode handler up to the yield of its first message: the limit
\* check, which ends the handler when it denies
QuickCommand(h, command, allowed) ==
  /\ qm_commands[h].pc = "idle"
  /\ qm_commands' =
       [qm_commands EXCEPT ![h].command = command,
                           ![h].pc = IF allowed THEN "allowed" ELSE "done"]
  /\ UNCHANGED <<notCommands, qm_configured, qm_resolution, qm_aspect_ratio>>

\* a quick-mode handler from that yield to the await of should_use_avatar:
\* it keeps the values of the plugin and assigns its preset
QuickOverride(h) ==
  /\ qm_commands[h].pc = "allowed"
  /\ qm_commands' =
       [qm_commands EXCEPT ![h].old = Settings(qm_resolution, qm_aspect_ratio),
                           ![h].pc = "generating"]
  /\ qm_resolution' = QuickPresets[qm_commands[h].command].resolution
  /\ qm_aspect_ratio' = QuickPresets[qm_commands[h].command].aspect_ratio
  /\ UNCHANGED <<notCommands, qm_configured>>

\* _quick_generate_image from the await of the reference images to the await
\* of the API client: the request is built from the values of the plugin
QuickGenerateImage(h) ==
  /\ qm_commands[h].pc = "generating"
  /\ qm_commands' =
       [qm_commands EXCEPT ![h].config = Settings(qm_resolution, qm_aspect_ratio),
                           ![h].pc = "requested"]
  /\ UNCHANGED <<notCommands, qm_configured, qm_resolution, qm_aspect_ratio>>

\* _quick_generate_image fails before the request is built: the API client
\* is missing, or collecting the reference images raised
QuickGenerateFails(h) ==
  /\ qm_commands[h].pc = "generating"
  /\ qm_commands' = [qm_commands EXCEPT ![h].pc = "requested"]
  /\ UNCHANGED <<notCommands, qm_configured, qm_resolution, qm_aspect_ratio>>

\* the API client answered and generate_image sent the result
GenerateReturns(h) ==
  /\ qm_commands[h].pc = "requested"
  /\ qm_commands[h].command = "generate_image"
  /\ qm_commands' = [qm_commands EXCEPT ![h].pc = "done"]
  /\ UNCHANGED <<notCommands, qm_configured, qm_resolution, qm_aspect_ratio>>

\* the API client answered and a quick-mode handler sent the result: its
\* finally clause assigns the values it kept
QuickRestore(h) ==
  /\ qm_commands[h].pc = "requested"
  /\ qm_commands[h].command \in QuickCommands
  /\ qm_commands' = [qm_commands EXCEPT ![h].pc = "done"]
  /\ qm_resolution' = qm_commands[h].old.resolution
  /\ qm_aspect_ratio' = qm_commands[h].old.aspect_ratio
  /\ UNCHANGED <<notCommands, qm_configured>>

NextCommands ==
  \/ \E h \in Handlers, allowed \in BOOLEAN : GenerateImageCommand(h, allowed)
  \/ \E h \in Handlers, command \in QuickCommands, allowed \in BOOLEAN :
       QuickCommand(h, command, allowed)
  \/ \E h \in Handlers : QuickOverride(h)
  \/ \E h \in Handlers : QuickGenerateImage(h)
  \/ \E h \in Handlers : QuickGenerateFails(h)
  \/ \E h \in Handlers : GenerateReturns(h)
  \/ \E h \in Handlers : QuickRestore(h)

\* ------------------------------------------------------- specifications

\* KeyManager called by one caller at a time
InitOfKM == InitKM /\ ParkedRL /\ ParkedAPI /\ ParkedAdapters /\ ParkedAvatars /\ ParkedImages
  /\ ParkedCommands /\ ParkedLegacy
SpecKM == InitOfKM /\ [][NextKM]_vars

\* KeyManager called by concurrent callers
SpecKMC == InitOfKM /\ [][NextKMC]_vars

\* RateLimiter called by one caller at a time
InitOfRL == ParkedKM /\ InitRL /\ ParkedAPI /\ ParkedAdapters /\ ParkedAvatars /\ ParkedImages
  /\ ParkedCommands /\ ParkedLegacy
SpecRL == InitOfRL /\ [][NextRL]_vars

\* RateLimiter called by concurrent callers
SpecRLC == InitOfRL /\ [][NextRLC]_vars

\* RateLimiter built from every shape of the limit settings, over a store
\* that is empty or holds the buckets an earlier process left; one caller
InitOfRules ==
  /\ ParkedKM
  /\ ParkedAPI
  /\ ParkedAdapters
  /\ ParkedAvatars
  /\ ParkedImages
  /\ ParkedCommands /\ ParkedLegacy
  /\ rl_config \in RuleConfigs
  /\ rate_limit_buckets = EmptyBuckets
  /\ rl_loaded = FALSE
  /\ rl_kv \in {<<>>, <<[g \in Groups |-> <<0>>]>>}
  /\ clock = 0
  /\ rl_lock = <<>>
  /\ rl_pc = Idle
  /\ rl_call = [c \in Callers |-> NoCall]
  /\ rl_ret = Outcome(NoGroup, 0, "none", NoLimits, TRUE, NoMessage)
  /\ admitted = EmptyBuckets
  /\ rl_restarts = 0
  /\ rl_calls = 0

\* the calls come within one tick
NextRules == \E group_id \in Groups \cup {NoGroup} : CheckAndConsume(group_id)

SpecRules == InitOfRules /\ [][NextRules]_vars

\* one request loop of the API client at a time
InitOfAPI == ParkedKM /\ ParkedRL /\ InitAPI /\ ParkedAdapters /\ ParkedAvatars /\ ParkedImages
  /\ ParkedCommands /\ ParkedLegacy
SpecAPI == InitOfAPI /\ [][NextAPI]_vars

\* the adapters and the registry, called with every argument
InitOfAdapters ==
  ParkedKM /\ ParkedRL /\ ParkedAPI /\ ParkedAdapters /\ ParkedAvatars /\ ParkedImages
  /\ ParkedCommands /\ ParkedLegacy
SpecAdapters == InitOfAdapters /\ [][NextAdapters]_vars

\* one call of get_avatar_reference at a time
InitOfAvatars ==
  ParkedKM /\ ParkedRL /\ ParkedAPI /\ ParkedAdapters /\ ParkedAvatars /\ ParkedImages
  /\ ParkedCommands /\ ParkedLegacy
SpecAvatars == InitOfAvatars /\ [][NextAvatars]_vars

\* one answer with b64_json images parsed over an images directory
InitOfImages ==
  ParkedKM /\ ParkedRL /\ ParkedAPI /\ ParkedAdapters /\ ParkedAvatars /\ InitImages
  /\ ParkedCommands /\ ParkedLegacy
SpecImages == InitOfImages /\ [][NextImages]_vars

\* the command handlers as concurrent tasks of one event loop
InitOfCommands ==
  ParkedKM /\ ParkedRL /\ ParkedAPI /\ ParkedAdapters /\ ParkedAvatars /\ ParkedImages
  /\ InitCommands /\ ParkedLegacy
SpecCommands == InitOfCommands /\ [][NextCommands]_vars

\* the same events given to the legacy limiter and to the RateLimiter built
\* from the migrated config
InitOfMigration ==
  ParkedKM /\ ParkedAPI /\ ParkedAdapters /\ ParkedAvatars /\ ParkedImages
  /\ ParkedCommands /\ InitMigration
SpecMigration == InitOfMigration /\ [][NextMigration]_vars

\* ------------------------------------------------- KeyManager, the claims

\* what the call that returned last found in memory once the lazy load was done
Entered ==
  IF km_ret.was_loaded THEN km_ret.before ELSE LoadFromKv(km_ret.before, km_ret.stored)

DailyLimit == provider.daily_limit_per_key
PoolSize == Len(provider.api_keys)

\* a key's usage for the day `today`, the lazy date reset applied
UsageToday(p, k) ==
  IF p.key_records[k].last_reset_date # today THEN 0 ELSE p.key_records[k].usage_count

Exhausted(p, k) == UsageToday(p, k) >= p.daily_limit_per_key

FreshRunOf(n, limit) ==
  km_fresh /\ PoolSize = n /\ DailyLimit = limit

\* C2, as stated: on a fresh pool of 3 keys with quota 2, the i-th of the
\* first 6 sequential get_available_key calls returns the key after the one
\* the (i-1)-th returned (1, 2, 3, 1, 2, 3) and the 7th returns None.
C2_RoundRobinOrder ==
  FreshRunOf(3, 2) =>
    \A i \in DOMAIN km_trace :
      km_trace[i] = IF i <= 6 THEN ((i - 1) % 3) + 1 ELSE NoKey

\* C2, amended: on a fresh pool of 3 keys with quota 2, sequential
\* get_available_key calls on one day return each key twice in a row, in pool
\* order (1, 1, 2, 2, 3, 3), and every call after these 6 deductions returns None.
C2_PoolOrderTwiceEach ==
  FreshRunOf(3, 2) =>
    /\ \A i \in DOMAIN km_trace :
         km_trace[i] = IF i <= 6 THEN ((i - 1) \div 2) + 1 ELSE NoKey
    /\ \A k \in Keys(provider) :
         deducted_today[k] = Cardinality({i \in DOMAIN km_trace : km_trace[i] = k})

C2_Witness ==
  FreshRunOf(3, 2) /\ Len(km_trace) = 7 /\ km_trace[7] = NoKey

\* C3: with a daily limit L > 0, get_available_key returns None exactly when
\* every key has used up L today (date reset applied); otherwise the key it
\* returns had usage < L, that usage is now one higher, and no other record changed.
C3_NoneIffAllExhausted ==
  (km_ret.op = "get" /\ DailyLimit > 0) =>
    /\ (km_ret.key = NoKey) <=> (\A k \in Keys(provider) : Exhausted(Entered, k))
    /\ km_ret.key = NoKey => provider = Entered
    /\ km_ret.key # NoKey =>
         /\ UsageToday(Entered, km_ret.key) < DailyLimit
         /\ provider.key_records[km_ret.key] =
              [usage_count |-> UsageToday(Entered, km_ret.key) + 1,
               last_reset_date |-> today]
         /\ \A k \in Keys(provider) \ {km_ret.key} :
              provider.key_records[k] = Entered.key_records[k]

C3_Witness ==
  /\ km_ret.op = "get" /\ DailyLimit > 0 /\ PoolSize > 1
  /\ km_ret.key = NoKey
  /\ \E k \in Keys(provider) : provider.key_records[k].usage_count = DailyLimit

\* C4: a key's counter is reset at most once on a date: the scan that finds a
\* stored date other than today sets usage to 0 (then deducts 1) and the
\* date to today, however old the stored date is; a call that finds today's
\* date does not reset.
C4_ResetOncePerDay ==
  /\ \A k \in Keys(provider) : resets_today[k] <= 1
  /\ (km_ret.op = "get" /\ DailyLimit > 0 /\ km_ret.key # NoKey) =>
       LET was == Entered.key_records[km_ret.key]
           now == provider.key_records[km_ret.key]
       IN /\ now.last_reset_date = today
          /\ was.last_reset_date # today => now.usage_count = 1
          /\ was.last_reset_date = today => now.usage_count = was.usage_count + 1

C4_Witness ==
  /\ km_ret.op = "get" /\ DailyLimit > 1 /\ km_ret.key # NoKey
  /\ today > 1
  /\ resets_today[km_ret.key] = 1
  /\ Entered.key_records[km_ret.key] = [usage_count |-> 1, last_reset_date |-> today]

RotateStart ==
  IF ~km_ret.was_loaded /\ km_ret.stored # <<>>
  THEN km_ret.stored[1].current_index
  ELSE (km_ret.before.current_index + 1) % PoolSize

\* C6, as stated: rotate_key leaves the rotation index at (i + 1) mod n and
\* returns the key at that index.
C6_ReturnsKeyAtNextIndex ==
  km_ret.op = "rotate" =>
    LET next == (km_ret.before.current_index + 1) % PoolSize
    IN /\ provider.current_index = next
       /\ km_ret.key = provider.api_keys[next + 1]

\* C6, amended: on a pool of n >= 2 keys rotate_key advances the rotation
\* index to (i + 1) mod n and then acquires as get_available_key does (a first
\* lazy load that restores stored records puts the stored index in its place):
\* without a quota the key at that index is returned; with a quota the first
\* key with quota left, scanning from that index, is returned and becomes the
\* rotation index, and None is returned when there is none.  On a pool of one
\* key the key is returned and nothing changes.
C6_RotateThenAcquire ==
  km_ret.op = "rotate" =>
    IF PoolSize <= 1
    THEN km_ret.key = provider.api_keys[1] /\ provider = km_ret.before
         /\ km_kv = km_ret.stored
    ELSE LET start == RotateStart
             at(j) == provider.api_keys[((start + j) % PoolSize) + 1]
         IN /\ DailyLimit <= 0 =>
                 km_ret.key = at(0) /\ provider.current_index = start
            /\ DailyLimit > 0 =>
                 \/ /\ km_ret.key = NoKey
                    /\ provider.current_index = start
                    /\ \A k \in Keys(provider) : Exhausted(Entered, k)
                 \/ \E j \in 0 .. PoolSize - 1 :
                      /\ km_ret.key = at(j)
                      /\ provider.current_index = (start + j) % PoolSize
                      /\ ~Exhausted(Entered, at(j))
                      /\ \A h \in 0 .. j - 1 : Exhausted(Entered, at(h))

C6_Witness ==
  /\ km_ret.op = "rotate" /\ PoolSize = 3 /\ DailyLimit > 0 /\ km_ret.was_loaded
  /\ km_ret.key # NoKey
  /\ provider.current_index # (km_ret.before.current_index + 1) % PoolSize

C1_NeverOverAllocated ==
  DailyLimit > 0 => \A k \in Keys(provider) : handed_today[k] <= DailyLimit

\* ------------------------------------------------ RateLimiter, the claims

Limited(g) == ~ListDenies(rl_config, g) /\ Limits(rl_config, g).enabled

Occurrences(seq, x) == Cardinality({i \in DOMAIN seq : seq[i] = x})

\* C8: for a group governed by an enabled rule (W seconds, at most M), no
\* window of W seconds ever holds more than M admitted calls, and a call is
\* denied for rate reasons only when M admitted calls lie in its window.
C8_AtMostMaxPerWindow ==
  /\ \A g \in Groups :
       Limited(g) => Len(Recent(admitted, g, clock)) <= Limits(rl_config, g).max_requests
  /\ rl_ret.reason = "rate" /\ rl_ret.now = clock =>
       Len(Recent(admitted, rl_ret.group, clock)) >= rl_ret.max_requests
  /\ rl_ret.reason = "ok" /\ rl_ret.now = clock =>
       Occurrences(admitted[rl_ret.group], clock) >= 1

C8_Witness ==
  /\ rl_ret.reason = "rate" /\ rl_ret.max_requests = 2
  /\ Len(admitted[rl_ret.group]) = 2
  /\ admitted[rl_ret.group][1] < admitted[rl_ret.group][2]
  /\ admitted[rl_ret.group][2] < rl_ret.now

\* C9: under any interleaving of concurrent check_and_consume callers, a
\* governed group never has more than M admitted calls in one window, and
\* (once the buckets are loaded) every admitted call that is still inside
\* the window is in the group's bucket.
C9_ConcurrentAdmissionBounded ==
  \A g \in Groups :
    Limited(g) =>
      /\ Len(Recent(admitted, g, clock)) <= Limits(rl_config, g).max_requests
      /\ rl_loaded =>
           \A ts \in 0 .. MaxTime :
             Occurrences(Recent(admitted, g, clock), ts)
               <= Occurrences(rate_limit_buckets[g], ts)

\* C10: a rate-limit denial reports retryAfter = max(0, earliest + W - now),
\* earliest being the oldest timestamp left in the bucket; the value lies in
\* 0..W and is positive while the window of the oldest admitted call is open.
C10_RetryAfterExact ==
  rl_ret.reason = "rate" =>
    LET earliest == rate_limit_buckets[rl_ret.group][1]
        remaining == earliest + rl_ret.period * TicksPerSecond - rl_ret.now
    IN /\ rl_ret.retry_after * TicksPerSecond = IF remaining < 0 THEN 0 ELSE remaining
       /\ rl_ret.retry_after \in 0 .. rl_ret.period
       /\ remaining > 0 => rl_ret.retry_after > 0

\* the group is on the blacklist, or missing from a non-empty whitelist
ListedOut(g) ==
  \/ rl_config.group_limit_mode = "blacklist" /\ g \in rl_config.group_limit_list
  \/ /\ rl_config.group_limit_mode = "whitelist"
     /\ rl_config.group_limit_list # {} /\ g \notin rl_config.group_limit_list

\* the step is a check_and_consume call for group_id that has returned
CallReturned(group_id) ==
  rl_ret' # rl_ret /\ rl_ret'.group = group_id /\ rl_ret'.now = clock

\* C11: a call for a group that is on the blacklist, or missing from a
\* non-empty whitelist, returns allowed = false with no message whatever the
\* buckets hold, and changes neither the bucket map, the loaded flag nor the store.
C11_ListedGroupSilentlyDenied ==
  [][\A g \in Groups :
       (CallReturned(g) /\ ListedOut(g)) =>
         /\ rl_ret'.allowed = FALSE /\ rl_ret'.retry_after = NoMessage
         /\ UNCHANGED <<rate_limit_buckets, rl_loaded, rl_kv>>]_vars

C11_Witness ==
  /\ rl_ret.group \in Groups /\ ListedOut(rl_ret.group)
  /\ ~rl_ret.allowed /\ rl_ret.retry_after = NoMessage
  /\ rl_loaded /\ rate_limit_buckets[rl_ret.group] # <<>>
  /\ Len(rate_limit_buckets[rl_ret.group]) < 2

\* the rule at position i is enabled and names the group or names no group
RuleApplies(i, g) ==
  LET rule == rl_config.rate_limit_rules[i]
  IN rule.enabled /\ (rule.group_ids = {} \/ g \in rule.group_ids)

\* C12: a call that passes the lists is governed by the first rule in
\* configured order that is enabled and names the group or no group; when
\* there is none, by the default rule if it is enabled; and when that is
\* disabled the call is admitted without a message and without bookkeeping.
C12_FirstEnabledRuleGoverns ==
  (rl_ret.group \in Groups /\ ~ListedOut(rl_ret.group)) =>
    LET g == rl_ret.group
        rules == rl_config.rate_limit_rules
        firsts == {i \in DOMAIN rules :
                     RuleApplies(i, g) /\ \A j \in 1 .. i - 1 : ~RuleApplies(j, g)}
    IN IF firsts # {}
       THEN \A i \in firsts :
              /\ rl_ret.period = rules[i].period_seconds
              /\ rl_ret.max_requests = rules[i].max_requests
              /\ rl_ret.reason \in {"ok", "rate"}
       ELSE IF rl_config.default_rate_limit.enabled
       THEN /\ rl_ret.period = rl_config.default_rate_limit.period_seconds
            /\ rl_ret.max_requests = rl_config.default_rate_limit.max_requests
            /\ rl_ret.reason \in {"ok", "rate"}
       ELSE rl_ret.allowed /\ rl_ret.retry_after = NoMessage
            /\ rl_ret.reason = "unlimited"

C12_Witness ==
  /\ rl_ret.group = 2 /\ ~ListedOut(2)
  /\ Len(rl_config.rate_limit_rules) = 2
  /\ ~rl_config.rate_limit_rules[1].enabled /\ rl_config.rate_limit_rules[1].group_ids = {}
  /\ RuleApplies(2, 2)
  /\ rl_ret.period = 2 /\ rl_ret.reason = "rate"

\* C14: a call for an event without a group id returns allowed = true with
\* no message and changes neither the bucket map, the loaded flag nor the store.
C14_PrivateChatPasses ==
  [][CallReturned(NoGroup) =>
       /\ rl_ret'.allowed /\ rl_ret'.retry_after = NoMessage
       /\ UNCHANGED <<rate_limit_buckets, rl_loaded, rl_kv>>]_vars

C14_Witness ==
  /\ rl_ret.group = NoGroup /\ rl_ret.reason = "private" /\ rl_ret.allowed
  /\ ~rl_loaded /\ rl_kv # <<>>

RetriesExhausted == api_pc = "done" /\ max_retries >= 1 /\ current_retry = max_retries

\* C15: when every attempt fails with a retryable error the loop makes
\* exactly max_retries attempts (max_retries >= 1), sleeps between consecutive
\* attempts only, with delays that grow strictly until they reach the cap and
\* never exceed it, and ends by raising an error.
C15_AttemptsAndBackoff ==
  /\ attempts <= max_retries
  /\ \A i \in DOMAIN delays :
       /\ delays[i] <= BackoffCap
       /\ i > 1 => (delays[i] > delays[i - 1] \/ delays[i - 1] = BackoffCap)
  /\ api_pc = "backoff" => (Len(delays) = attempts /\ attempts < max_retries)
  /\ api_pc = "attempt" => Len(delays) = attempts - 1
  /\ RetriesExhausted =>
       /\ attempts = max_retries
       /\ Len(delays) = max_retries - 1
       /\ api_result.kind = "raised"

C15_Witness ==
  /\ RetriesExhausted /\ max_retries = 5
  /\ Len(delays) = 4 /\ delays[1] < delays[2] /\ delays[2] < delays[3]
  /\ delays[3] = BackoffCap /\ delays[4] = BackoffCap

\* C16: an error raised when the loop gives up after more than one attempt is
\* an aggregated error of its own type that cites the number of attempts made,
\* not the error of the last attempt; after a single attempt the raw error
\* is raised.
C16_ExhaustedErrorCitesAttempts ==
  (RetriesExhausted /\ api_result.kind = "raised") =>
    IF attempts > 1
    THEN /\ api_result.value.cites = attempts
         /\ api_result.value.error_type = "exhausted"
         /\ api_result.value # last_error[1]
    ELSE api_result.value = last_error[1]

\* the exception carries a status that the retry decision lists as fatal, and
\* is neither a timeout nor a network error
FatalByStatus(exception) ==
  /\ exception.cls \notin {"TimeoutError", "ClientError", "CancelledError"}
  /\ exception.words = {}
  /\ exception.status \in {401, 402, 403, 422, 429}

\* C17: when the first attempt fails with an error classified fatal, the
\* error is raised at once: one attempt, no retry counted, no backoff sleep,
\* and the key rotation index as it was.
C17_FatalFirstAttemptEndsLoop ==
  [][(api_pc = "attempt" /\ attempts = 1 /\ last_failure' # <<>>
        /\ FatalByStatus(last_failure'[1])) =>
       /\ api_pc' = "done" /\ api_result'.kind = "raised"
       /\ api_result'.value.words = last_failure'[1].words
       /\ attempts' = 1 /\ current_retry' = 0 /\ delays' = <<>>
       /\ current_key_index' = current_key_index]_vars

C17_Witness ==
  /\ api_pc = "done" /\ attempts = 1 /\ max_retries > 1
  /\ last_failure # <<>> /\ FatalByStatus(last_failure[1])
  /\ api_result.kind = "raised" /\ delays = <<>>

\* C18: an attempt that fails with HTTP status 408, 500, 502, 503, 504 or 429
\* is retried (counted as a retry), and one that fails with HTTP status 401,
\* 402, 403 or 422 ends the loop without a retry; the vendor's message
\* carries nothing that overrides the status.
C18_StatusBandsDecideRetry ==
  [][(api_pc = "attempt" /\ last_failure' # <<>> /\ last_failure'[1].cls = "APIError"
        /\ last_failure'[1].words = {}) =>
       LET status == last_failure'[1].status_code
       IN /\ status \in {408, 500, 502, 503, 504, 429} =>
               current_retry' = current_retry + 1
          /\ status \in {401, 402, 403, 422} =>
               current_retry' = current_retry /\ api_pc' = "done"]_vars

\* C19: a cancellation by the caller, during an attempt or during a backoff
\* sleep, ends the loop with an error of type 'cancelled' and without a
\* further attempt.
C19_CancellationEndsLoop ==
  [][((api_pc = "attempt" /\ last_failure' = <<CancelledError>>)
        \/ (api_pc = "backoff" /\ api_pc' = "done")) =>
       /\ api_pc' = "done" /\ attempts' = attempts
       /\ api_result'.kind = "raised"
       /\ api_result'.value.cls = "APIError"
       /\ api_result'.value.error_type = "cancelled"]_vars

\* C20: an attempt ended by its own timeout or by a transport-level
\* connection failure is classified timeout or network and is retried: the
\* retry is counted and, while attempts remain, a backoff and a new attempt follow.
C20_TransportErrorsRetried ==
  [][(api_pc = "attempt" /\ last_failure' # <<>>
        /\ last_failure'[1].cls \in {"TimeoutError", "ClientError"}) =>
       /\ last_error' # <<>>
       /\ last_error'[1].error_type \in {"timeout", "network"}
       /\ last_failure'[1].cls = "TimeoutError" => last_error'[1].error_type = "timeout"
       /\ current_retry' = current_retry + 1
       /\ attempts < max_retries => api_pc' = "backoff"
       /\ attempts = max_retries => api_pc' = "done"]_vars

C20_Witness ==
  /\ api_pc = "attempt" /\ attempts = 3 /\ max_retries > 3
  /\ last_failure # <<>> /\ last_failure[1].cls = "ClientError"
  /\ last_failure[1].words = {} /\ last_failure[1].status = NoStatus
  /\ last_error # <<>> /\ last_error[1].error_type = "network"

\* ------------------------------------------- generate_image, the claims

\* C21: the total-time budget max_total_time covers every attempt and every
\* backoff delay of the request: no attempt starts once the budget is spent,
\* and a request that ends in an error with the budget spent ends with an
\* error of type 'time_budget_exceeded', not with the error of an attempt.
C21_TotalTimeBudgetEnforced ==
  /\ api_pc = "attempt" => elapsed < request.max_total_time
  /\ (api_pc = "done" /\ attempts >= 1 /\ api_result.kind = "raised"
        /\ elapsed >= request.max_total_time) =>
       /\ api_result.value.cls = "APIError"
       /\ api_result.value.error_type = "time_budget_exceeded"

\* C22: a request that made an attempt never returns a result with neither
\* an image nor a text: an attempt whose parsed answer is empty is a failure
\* (retried or raised), and only a non-empty result ends the loop with a
\* return.
C22_NeverReturnsEmpty ==
  (api_pc = "done" /\ attempts >= 1 /\ api_result.kind = "returned") =>
    api_result.value # "none"

\* the failure is a key-related signal: the answer's status says the key is
\* not accepted (401) or has no quota or no permission (429, 402, 403)
KeyRelated(exception) ==
  /\ exception.cls = "APIError"
  /\ exception.status_code \in {401, 402, 403, 429}

\* C23: with more than one key, an attempt that fails with a key-related
\* signal while attempts remain does not end the request, and the attempt
\* that follows it is made with the next key of the list.
C23_KeyFailureRotatesKey ==
  [][/\ (api_pc = "attempt" /\ api_keys > 1 /\ attempts < max_retries
           /\ last_failure' # <<>> /\ KeyRelated(last_failure'[1])) =>
          api_pc' = "backoff"
     /\ (api_pc = "backoff" /\ api_pc' = "attempt" /\ api_keys > 1
           /\ KeyRelated(last_failure[1])) =>
          request'.api_key = (request.api_key + 1) % api_keys]_vars

\* ------------------------------------------------- registry, the claims

\* the identifier as the claim normalises it, written on its own: no space
\* at either end, no capital letter, no hyphen
IsNormalForm(str) ==
  /\ str = <<>> \/ (Head(str) # " " /\ str[Len(str)] # " ")
  /\ \A i \in DOMAIN str : str[i] # "-" /\ \A j \in DOMAIN UpperCase : str[i] # UpperCase[j]

\* C28: get_api_provider gives exactly one adapter for every identifier,
\* None and the empty string included; an identifier whose normalised form
\* (trimmed, lower case, hyphens as underscores) is doubao, volcengine, ark or
\* seedream gives the Doubao adapter, one that is no known name or alias gives
\* the OpenAI-compatible adapter, and an identifier and its normalised form
\* give the same adapter.
C28_RegistryNormalisesAndFallsBack ==
  ad_op = "get_api_provider" =>
    LET normalized == NormalizeApiType(ad_in.api_type)
    IN /\ ad_out.provider \in {"doubao", "zai", "grok2api", "google", "openai"}
       /\ IsNormalForm(normalized)
       /\ ad_out.provider = GetApiProviderOf(Some(normalized))
       /\ normalized \in DOUBAO_API_TYPES <=> ad_out.provider = "doubao"
       /\ (\A name \in KnownNames :
             normalized # name /\ ~StartsWith(normalized, <<"z", "a", "i", "_">>)
               /\ ~StartsWith(normalized, <<"g", "r", "o", "k", "2", "a", "p", "i", "_">>))
            => ad_out.provider = "openai"
       /\ ad_in.api_type \in {None, Some(<<>>)} => ad_out.provider = "openai"

C28_Witness ==
  /\ ad_op = "get_api_provider"
  /\ ad_in.api_type = Some(<<" ", "G", "O", "O", "G", "L", "E", "-", "G", "E", "N", "A", "I">>)
  /\ ad_out.provider = "google"

\* ------------------------------------------------- adapters, the claims

\* C24: when the request loop starts a retry attempt, the request has been
\* built again for it, with the retry flag set, so that the Doubao payload
\* of a retry asks for b64_json and that of a first attempt for url.
C24_RetryIsBuiltWithRetryFlag ==
  [][(api_pc = "backoff" /\ api_pc' = "attempt") =>
       /\ request'.builds = request.builds + 1
       /\ request'.is_retry
       /\ ResponseFormat(request'.is_retry) = "b64_json"]_vars

\* the images of a built request, by their place in the config
EmittedIds(payload) == [i \in DOMAIN payload.image |-> payload.image[i].id]

\* <<1, 2, ..., n>>
FirstIds(n) == [i \in 1 .. n |-> i]

\* the cap of the builder called last
CapOf(op) ==
  IF op = "doubao.build_request" THEN DoubaoImageCap
  ELSE IF op = "google.prepare_payload" THEN GoogleImageCap
  ELSE OpenRouterImageCap

CappedBuilders == {"doubao.build_request", "google.prepare_payload", "openai.prepare_payload"}

\* C29 as stated: a builder given more reference images than its cap emits
\* exactly the first cap images, in their order, and does not raise.
C29_ExactlyTheCappedPrefix ==
  (ad_op \in CappedBuilders /\ Len(ad_in.config.reference_images) > CapOf(ad_op)) =>
    /\ ad_out.kind = "returned"
    /\ EmittedIds(ad_out.value) = FirstIds(CapOf(ad_op))

\* the images Doubao can put in a payload: not blank, and a URL, a data
\* URI, raw base64 or a readable file (a URL that can be fetched, when
\* base64 is forced)
Usable(image, force_b64) ==
  IF force_b64 THEN image.kind \in {"url", "data_uri", "raw_b64", "path_ok"}
  ELSE image.kind \in {"url", "url_dead", "data_uri", "raw_b64", "path_ok",
                       "data_garbled"}

\* C29 as amended: a builder with a cap never emits an image beyond its cap
\* and keeps the order of the config.  Google and the OpenAI-compatible
\* builder emit exactly the first cap images.  Doubao emits those of the
\* first cap that are not blank and can be converted, and raises only under
\* force_base64 when one of the first cap cannot be converted.  WhatAI has no
\* cap: it emits every image that resolves to a file and never raises.
C29_OnlyTheCappedPrefix ==
  /\ ad_op \in {"google.prepare_payload", "openai.prepare_payload"} =>
       /\ ad_out.kind = "returned"
       /\ EmittedIds(ad_out.value) =
            FirstIds(Min(Len(ad_in.config.reference_images), CapOf(ad_op)))
  /\ ad_op = "doubao.build_request" =>
       LET images == ad_in.config.reference_images
           force_b64 == ad_in.config.image_input_mode = "force_base64"
           within == Min(Len(images), DoubaoImageCap)
           broken == \E i \in 1 .. within :
                       images[i].kind # "blank" /\ ~Usable(images[i], force_b64)
       IN IF force_b64 /\ broken
          THEN ad_out.kind = "raised"
          ELSE /\ ad_out.kind = "returned"
               /\ EmittedIds(ad_out.value) =
                    SelectSeq(FirstIds(within), LAMBDA i : Usable(images[i], force_b64))
  /\ ad_op = "whatai.build_request" =>
       /\ ad_out.kind = "returned"
       /\ EmittedIds(ad_out.value) =
            SelectSeq(FirstIds(Len(ad_in.config.reference_images)),
                      LAMBDA i : Usable(ad_in.config.reference_images[i], TRUE))

C29_Witness ==
  /\ ad_op = "doubao.build_request"
  /\ Len(ad_in.config.reference_images) = DoubaoImageCap + 2
  /\ ad_in.config.reference_images[DoubaoImageCap + 1].kind = "path_bad"
  /\ ad_in.config.image_input_mode = "force_base64"
  /\ ad_out.kind = "returned"
  /\ EmittedIds(ad_out.value) = FirstIds(DoubaoImageCap)

\* the resolution the request is built from, and the tiers a model takes
RequestedResolution ==
  IF ad_op = "doubao.build_request" /\ ad_in.doubao_settings.default_size # None
  THEN ad_in.doubao_settings.default_size
  ELSE ad_in.config.resolution

IsSeedream45(model) ==
  Contains(Replace(Replace(Lower(model), "-", "."), "_", "."), <<"4", ".", "5">>)

SupportedTiers(op, model) ==
  IF op = "doubao.build_request" /\ IsSeedream45(model) THEN {Str2K, Str4K}
  ELSE {Str1K, Str2K, Str4K}

\* C30: a request built from a resolution setting always has a size: the
\* tier asked for when the model takes it, and otherwise a tier the model
\* takes or the WxH asked for (seedream 4.5 gets 2K for 1K, seedream 4.0
\* keeps 1K).
C30_SizeIsAlwaysASupportedTier ==
  (ad_op \in {"doubao.build_request", "google.prepare_payload"}
     /\ ad_out.kind = "returned"
     /\ RequestedResolution # None /\ RequestedResolution[1] # <<>>) =>
    LET size == ad_out.value.size
        model == IF ad_op = "doubao.build_request" THEN ad_out.value.model ELSE <<>>
        tier == TierOf(Remove(Lower(Strip(RequestedResolution[1])), " "))
    IN /\ size # Unset
       /\ size \in SupportedTiers(ad_op, model) \/ IsWxH(size)
       /\ tier \in SupportedTiers(ad_op, model) => size = tier
       /\ (tier = Str1K /\ Str1K \notin SupportedTiers(ad_op, model)) => size = Str2K

\* the code is one the adapter lists as not to be retried, or a more
\* detailed form of one
ListedNonRetryable(error_code) ==
  \E prefix \in NON_RETRYABLE_ERRORS : StartsWith(error_code, prefix)

\* C27: the error built for a vendor code of the non-retryable list
\* (sensitive content, authentication, parameters) is not retryable, whatever
\* the HTTP status of the answer, 429 and 5xx included.
C27_VendorCodeOverridesStatus ==
  (ad_op = "doubao.build_api_error" /\ ListedNonRetryable(ad_in.error_code)) =>
    ad_out.value.retryable = Some(FALSE)

\* the items of an answer that carry an image the adapter can hand on
UsableItems(response_data) ==
  {i \in 1..Len(response_data.data.items) :
     response_data.data.items[i] \in {"url", "url_undownloadable", "b64_saved"}}

\* the items whose image a returned result names
ReturnedItems(parsed) ==
  {parsed.image_urls[i] : i \in 1..Len(parsed.image_urls)}
    \cup {parsed.image_paths[i] : i \in 1..Len(parsed.image_paths)}

\* the answer has neither a usable image nor a vendor error with a message:
\* no JSON object, an error object without a message, or a success with no
\* usable data
MalformedAnswer(response_data) ==
  \/ ~response_data.is_dict
  \/ /\ response_data.error \in {"dict_no_message", "absent"}
     /\ UsableItems(response_data) = {}
     /\ ~(response_data.data.shape = "list" /\ response_data.data.items # <<>>
          /\ response_data.data.items[1] = "revised_prompt")

\* C25: parse_response of no adapter returns a result with no image URL, no
\* image path and no text; an answer that is no object, an error object
\* without a message, and a success without usable data each raise a
\* retryable MalformedResponse/EmptyResponse error.
C25_NoEmptyResultWithoutError ==
  ad_op = "parse_response" =>
    /\ ad_out.kind = "returned" =>
         \/ ad_out.value.image_urls # <<>>
         \/ ad_out.value.image_paths # <<>>
         \/ ad_out.value.text_content # None
    /\ MalformedAnswer(ad_in.response_data) =>
         /\ ad_out.kind = "raised"
         /\ ad_out.value.cls = "APIError"
         /\ ad_out.value.retryable = Some(TRUE)

\* C26: a top-level vendor error is fatal (parse_response raises) unless the
\* answer also carries image data, and then the images are returned; an
\* error on one item of "data" is skipped and the images of the other items
\* are returned.
C26_TopLevelErrorFatalUnlessImages ==
  (ad_op = "parse_response" /\ ad_in.response_data.is_dict) =>
    LET response_data == ad_in.response_data
    IN /\ (response_data.error = "dict_message" /\ DataIsEmpty(response_data.data))
            => ad_out.kind = "raised"
       /\ (response_data.error = "dict_message" /\ UsableItems(response_data) # {})
            => /\ ad_out.kind = "returned"
               /\ ReturnedItems(ad_out.value) = UsableItems(response_data)
       /\ (response_data.error = "absent" /\ UsableItems(response_data) # {})
            => /\ ad_out.kind = "returned"
               /\ ReturnedItems(ad_out.value) = UsableItems(response_data)

\* ------------------------------------------ reference images, the claims

\* the images of the config that Doubao tries to convert and cannot: within
\* the cap, a URL that cannot be fetched, a path that cannot be read, data
\* that does not decode
FailsEncoding(config) ==
  \E i \in 1 .. Min(Len(config.reference_images), DoubaoImageCap) :
    config.reference_images[i].kind \in {"url_dead", "path_bad", "data_garbled"}

C32_TextOnlyAnswerIsNoImage ==
  (/\ api_pc = "done" /\ attempts >= 1
   /\ request.api_type = "google"
   /\ api_result.kind = "returned") =>
    api_result.value # "text"

\* ------------------------------------------------- avatars, the claims

\* C33: the avatar downloads collect partial results: when the call returns,
\* its list holds the avatar of every download that completed with one, also
\* when another download failed or the aggregate timeout expired.
C33_CompletedDownloadsAreReturned ==
  av_pc = "returned" => av_images = CollectAvatars(av_tasks)

\* --------------------------------------------- image files, the claims

\* C34: after the parse of an answer that carries b64_json only, every image
\* path of the result names a stored file whose bytes are the bytes the
\* payload of its item encodes.
C34_StoredBytesAreTheDecodedPayload ==
  im_pc = "parsed" =>
    \A k \in 1 .. Len(im_out) :
      /\ \E file \in im_files : file.name = im_out[k].path
      /\ ReadFile(im_files, im_out[k].path) = im_in.items[im_out[k].item].bytes

C34_Witness ==
  /\ im_pc = "parsed"
  /\ im_in.adapter = "doubao"
  /\ Len(im_out) = 2
  /\ im_in.items[1].bytes = <<137, 0, 255>>
  /\ im_in.items[1].form = "line_feed"
  /\ ReadFile(im_files, im_out[1].path) = <<137, 0, 255>>
  /\ ReadFile(im_files, im_out[2].path) = im_in.items[2].bytes
  /\ OldFile \notin im_files

\* ------------------------------------------------- backoff, the claims

\* C35: the delay slept before the k-th retry is 2 seconds for the first,
\* then 4, then 8, doubling per attempt, and capped at 10 seconds.
C35_BackoffIsTwoFourEight ==
  \A k \in DOMAIN delays : delays[k] = Min(2 ^ k, BackoffCap)

\* ---------------------------------------------- lazy loading, the claims

\* C36: the stored usage records are applied to memory at most once per
\* KeyManager instance: once _loaded is set (a caller has finished the load
\* and may have changed the counters), no caller that resumes from its own
\* get_kv changes the provider's counters or index by restoring the value it
\* was given.
C36_StoredStateAppliedOnce ==
  [][\A c \in Callers :
       (km_loaded /\ km_pc[c] = "got_kv" /\ km_pc'[c] # "got_kv") =>
         LoadFromKv(provider, km_data[c]) = provider]_vars

\* ------------------------------------------------ retry-after, the claims

\* C37: when check_and_consume denies a group at time t with the retry-after
\* value r and the next request of that group comes at t + r, with no other
\* call in between, that request is admitted.
C37_AdvertisedWaitIsSufficient ==
  [][\A g \in Groups :
       (/\ rl_ret.reason = "rate" /\ rl_ret.group = g
        /\ CallReturned(g)
        /\ clock = rl_ret.now + rl_ret.retry_after * TicksPerSecond)
         => rl_ret'.allowed]_vars

\* ------------------------------------------------- rotate_key, the claims

\* C38: with a daily limit L > 0 and a pool of any size, the key rotate_key
\* returns had usage < L before the call and its usage is now one higher;
\* otherwise rotate_key returns None.
C38_RotateNeverReturnsExhaustedKey ==
  (km_ret.op = "rotate" /\ DailyLimit > 0 /\ km_ret.key # NoKey) =>
    /\ UsageToday(Entered, km_ret.key) < DailyLimit
    /\ provider.key_records[km_ret.key].last_reset_date = today
    /\ provider.key_records[km_ret.key].usage_count =
         UsageToday(Entered, km_ret.key) + 1

\* ------------------------------------------------ the commands, the claims

CommandsFinished == \A h \in Handlers : qm_commands[h].pc \in {"idle", "done"}

\* C39: once every running command has finished, the plugin's resolution
\* and aspect ratio are the configured ones; and the request of a plain
\* generate command is built with the configured values, never with the
\* preset of a quick-mode command.
C39_PresetsAreTemporary ==
  /\ CommandsFinished =>
       Settings(qm_resolution, qm_aspect_ratio) = qm_configured
  /\ \A h \in Handlers :
       (qm_commands[h].command = "generate_image"
          /\ qm_commands[h].config # NoSettings) =>
         qm_commands[h].config = qm_configured

\* ------------------------------------------------ the migration, the claims

\* C40: for every sequence of events, the RateLimiter built from the migrated
\* legacy config returns what the legacy _check_and_consume_limit returns:
\* the same decision and, on a denial by the rate, the same retry-after,
\* period and maximum; and a legacy config with limiting off limits no group.
C40_MigratedLimiterMatchesLegacy ==
  /\ rl_ret.allowed = lg_ret.allowed
  /\ rl_ret.retry_after = lg_ret.retry_after
  /\ rl_ret.reason = "rate" =>
       /\ rl_ret.period = lg_ret.period
       /\ rl_ret.max_requests = lg_ret.max_requests
  /\ ~LegacyLoad(lg_settings).enable_rate_limit =>
       \A g \in Groups : ~Limits(rl_config, g).enabled

\* C40, witness: a config migrated into one wildcard rule with the legacy
\* period of 2 seconds, under which both limiters have just denied an event
\* and reported a positive retry-after
C40_Witness ==
  /\ lg_settings.enable_rate_limit = Bool(TRUE)
  /\ lg_settings.rate_limit_period = IntValue(2)
  /\ Len(rl_config.rate_limit_rules) = 1
  /\ rl_config.rate_limit_rules[1].group_ids = {}
  /\ rl_ret.reason = "rate"
  /\ ~lg_ret.allowed
  /\ lg_ret.retry_after > 0
  /\ rl_ret.retry_after = lg_ret.retry_after

====
